---- MODULE Spec2Model ----
(***************************************************************************)
(* Q565: a lossless codec for RGB565 pixels.  The model follows the        *)
(* round-trip harness of tests/roundtrip.rs: the allocating encoder, the   *)
(* writer-based encoder, the validating block decoder, the unchecked block *)
(* decoder and the streaming decoder run one after the other on one image. *)
(* Every loop iteration of a codec is one action.                          *)
(***************************************************************************)
EXTENDS Integers, Sequences, FiniteSets, TLC

(***************************************************************************)
(* Bounds of the model.                                                    *)
(***************************************************************************)
\* number of pixels drawn freely for one image (before a run is stretched)
MaxLen == 3
\* largest chunk handed to one streaming-decoder call
MaxChunk == 2

(***************************************************************************)
(* Integer helpers for the fixed-width arithmetic of the code.             *)
(***************************************************************************)
RECURSIVE AndBits(_, _)
AndBits(a, b) ==
    IF a = 0 \/ b = 0 THEN 0
    ELSE (IF a % 2 = 1 /\ b % 2 = 1 THEN 1 ELSE 0) + 2 * AndBits(a \div 2, b \div 2)

RECURSIVE OrBits(_, _)
OrBits(a, b) ==
    IF a = 0 THEN b
    ELSE IF b = 0 THEN a
    ELSE (IF a % 2 = 1 \/ b % 2 = 1 THEN 1 ELSE 0) + 2 * OrBits(a \div 2, b \div 2)

\* a & b and a | b; each operand is evaluated once, whatever it costs
BitAnd(a, b) == CHOOSE r \in {AndBits(x, y) : x \in {a}, y \in {b}} : TRUE
BitOr(a, b) == CHOOSE r \in {OrBits(x, y) : x \in {a}, y \in {b}} : TRUE

\* x << k and x >> k on an unsigned 8-bit value
Shl8(x, k) == (x * (2 ^ k)) % 256
Shr8(x, k) == x \div (2 ^ k)
\* `as i8` of a byte, `as u8` of an i8
AsI8(x) == IF x % 256 >= 128 THEN (x % 256) - 256 ELSE x % 256
AsU8(x) == x % 256
\* arithmetic >> of an i8
SarI8(x, k) == AsI8(Shr8(AsU8(x), k) + (IF x < 0 THEN 256 - 2 ^ (8 - k) ELSE 0))

SetMin(S) == CHOOSE x \in S : \A y \in S : x <= y

(***************************************************************************)
(* Opcode tags (lib.rs, stream format).                                    *)
(***************************************************************************)
Q565_OP_INDEX == 0
Q565_OP_DIFF == 64
Q565_OP_LUMA == 128
Q565_OP_DIFF_INDEXED == 160
Q565_OP_RUN == 192
Q565_OP_RGB565 == 254
Q565_OP_END == 255
\* the longest run one RUN byte carries
RunMax == 62

(***************************************************************************)
(* utils.rs                                                                *)
(***************************************************************************)
to_le_bytes(n) == <<n % 256, n \div 256>>
from_le_bytes(bs) == bs[1] + 256 * bs[2]

\* hash adding the two bytes with saturation instead of wrapping
M_hash_saturating(pixel) ==
    LET a == to_le_bytes(pixel)[1]
        b == to_le_bytes(pixel)[2]
    IN BitAnd(IF a + b > 255 THEN 255 ELSE a + b, 63)

\* hash taking the high byte alone
M_hash_high(pixel) == BitAnd(to_le_bytes(pixel)[2], 63)

\* hash taking the low byte alone
M_hash(pixel) == BitAnd(to_le_bytes(pixel)[1], 63)

hash(pixel) ==
    LET a == to_le_bytes(pixel)[1]
        b == to_le_bytes(pixel)[2]
    IN BitAnd((a + b) % 256, 63)

decode_565(pixel) ==
    <<Shr8(BitAnd(pixel, 63488), 11) , BitAnd(pixel, 2016) \div 32, BitAnd(pixel, 31)>>

encode_rgb565_unchecked(r, g, b) == BitOr(BitOr(r * 2048, g * 32), b)

\* diff_n without the truncation to N bits
M_diff_n(N, a, b) == a - b

diff_n(N, a, b) == SarI8(AsI8(Shl8(AsU8(a - b), 8 - N)), 8 - N)

\* sum_n without the shifts that cut the sum to N bits
M_sum_n(N, a, d) == AsU8(AsI8(a) + d)

sum_n(N, a, d) == Shr8(Shl8(AsU8(AsI8(a) + d), 8 - N), 8 - N)

apply_diff(prev, r_diff, g_diff, b_diff) ==
    LET c == decode_565(prev)
    IN encode_rgb565_unchecked(sum_n(5, c[1], r_diff), sum_n(6, c[2], g_diff),
                               sum_n(5, c[3], b_diff))

\* to_wire that ignores the byte order and stores little-endian
M_to_wire(B, n) == <<n % 256, n \div 256>>

\* ByteOrder::to_wire: the two bytes of the written u16, in memory order
to_wire(B, n) ==
    IF B = "BE" THEN <<n \div 256, n % 256>> ELSE <<n % 256, n \div 256>>

(***************************************************************************)
(* The images of the model.                                                *)
(***************************************************************************)
\* black, a small step from black, magenta (one wrapping step below black in
\* red and blue), and four colours far from black, three of which share hash 58
Pixels == {0, 33, 63519, 33808, 31743, 35950, 20586}

\* base with its k-th pixel repeated rep times
Stretch(base, k, rep) ==
    SubSeq(base, 1, k - 1) \o [i \in 1..rep |-> base[k]] \o SubSeq(base, k + 1, Len(base))

\* run lengths that make a RUN chain: one full byte, two full bytes and a rest
RunLens == {RunMax, 2 * RunMax + 1}

FreeImages(n) == UNION {[1..m -> Pixels] : m \in 1..n}

\* 0x843C, a pixel of slot 0 far from black, and then a small step from
\* black: slot 0 no longer holds black, the other slots do
SlotImages == {<<33852, 33>>}

\* 0x0060, three steps of green from black: too far for a DIFF, inside LUMA
LumaImages == {<<96>>}

\* every image of up to MaxLen pixels; the shorter ones also with one pixel
\* stretched into a long run; and the empty image
Images ==
    FreeImages(MaxLen)
    \cup UNION {{Stretch(base, k, rep) : k \in 1..Len(base), rep \in RunLens} :
                base \in FreeImages(MaxLen - 1)}
    \cup {<<>>}
    \cup SlotImages
    \cup LumaImages

\* dimensions offered with an image: one row, one column (short images), and
\* two that do not match the pixel count
Dims(px) ==
    IF Len(px) = 0 THEN {<<0, 1>>, <<1, 0>>, <<1, 1>>}
    ELSE {<<Len(px), 1>>, <<Len(px), 2>>, <<Len(px) + 1, 1>>}
         \cup (IF Len(px) < MaxLen THEN {<<1, Len(px)>>} ELSE {})

(***************************************************************************)
(* State.                                                                  *)
(***************************************************************************)
VARIABLES
    pc,        \* position in the harness: the call that runs next
    width, height, pixels,      \* the image handed to the encoders
    enc,       \* Q565EncodeContext of encode_to_vec
    w,         \* its output Vec<u8>
    epos,      \* pixels consumed by its iterator
    eret,      \* its return value
    elast,     \* its last loop iteration: opcode, pixel, bytes, context before
    enc2,      \* Q565EncodeContext of the writer-based encode
    w2,        \* the bytes it wrote
    eret2,     \* its result
    dec,       \* Q565DecodeContext of the validating decode
    din,       \* bytes its iterator has consumed after the header
    dout,      \* its sink: the output slice, output_idx, and a write past the end
    dret,      \* its result
    dhdr,      \* the header it returns
    udec,      \* Q565DecodeContext of decode_unchecked
    uin,       \* its input_idx
    uout,      \* its sink
    uret,      \* its result
    uhdr,      \* the header it returns
    sctx,      \* Q565StreamingDecodeContext
    sfed,      \* bytes of the stream handed to it so far
    sbuf,      \* the caller's output buffer
    sbase,     \* the caller's position in it: the sum of the returned counts
    slast,     \* the last call: chunk length, bytes consumed, result, cells written,
               \* and the state tag it started from
    bctx,      \* Q565StreamingDecodeContext of the big-endian streaming decode
    bfed,      \* bytes of the stream handed to it so far
    bbuf,      \* its caller's output buffer
    bbase,     \* its caller's position in it
    hres,      \* a call of hash on its own: the pixel and the results
    vdec,      \* Q565DecodeContext of decode_to_vec
    vin,       \* bytes its iterator has consumed after the header
    vout,      \* its output Vec<u16>, a cell per element
    vret,      \* its result
    vhdr,      \* the header it returns
    qin,       \* the Q565Context handed to decode_to_slice_unchecked
    qctx,      \* that context when the call returns
    qout,      \* its output slice and output_idx
    qret,      \* its result
    alast,     \* a streaming call made after one that returned at the end marker
    fno,       \* the number of the frame in a sequence of frames that share their
               \* contexts, from 1; 0 for an image on its own
    aenc,      \* alloc_api::encode_to_vec on the same image: its result and its Vec<u8>
    nres       \* a call of diff_n, sum_n or apply_diff on its own: arguments and result

evars == <<enc, w, epos, eret, elast>>
e2vars == <<enc2, w2, eret2>>
ivars == <<width, height, pixels>>
dvars == <<dec, din, dout, dret, dhdr>>
uvars == <<udec, uin, uout, uret, uhdr>>
svars == <<sctx, sfed, sbuf, sbase, slast>>
bvars == <<bctx, bfed, bbuf, bbase>>
vvars == <<vdec, vin, vout, vret, vhdr>>
qvars == <<qin, qctx, qout, qret>>
vars == <<pc, ivars, evars, e2vars, dvars, uvars, svars, bvars, hres, vvars, qvars, alast, fno, aenc, nres>>

Q565EncodeContext_new ==
    [prev |-> 0, prev_components |-> <<0, 0, 0>>,
     arr |-> [i \in 0..63 |-> 0], arr_components |-> [i \in 0..63 |-> <<0, 0, 0>>]]

NoArith == [op |-> "none", N |-> 0, a |-> 0, b |-> 0, d |-> 0, s |-> 0,
            prev |-> 0, diffs |-> <<0, 0, 0>>, pixel |-> 0]

NoEncode == [ret |-> "none", w |-> <<>>]

NoIter == [op |-> "none", pixel |-> 0, count |-> 0, bytes |-> <<>>,
           pos |-> 0, prev |-> 0, arr |-> [i \in 0..63 |-> 0]]

(***************************************************************************)
(* encode.rs: one iteration of the loop of encode_to_vec_with_state.       *)
(***************************************************************************)
\* take_while_count that also counts the pixel that ends the run
M_take_while_count_over(px, from, v) ==
    SetMin({k \in from..(Len(px) + 1) : k = Len(px) + 1 \/ px[k] # v}) - from + 1

\* take_while_count that counts no further pixel: a run is never extended
M_take_while_count(px, from, v) == 0

\* slice.iter().take_while(|p| p == v).count() on pixels[from..]
take_while_count(px, from, v) ==
    SetMin({k \in from..(Len(px) + 1) : k = Len(px) + 1 \/ px[k] # v}) - from

\* the run test never taken: every pixel goes on to the other opcodes
M_is_repeat(pixel, prev) == FALSE

\* if pixel == self.prev
is_repeat(pixel, prev) == pixel = prev

\* run_bytes storing the rest of the run without the bias of -1
M_run_bytes_bias(count) ==
    LET max_count_count == count \div 62
        rest_count == count % 62
    IN [i \in 1..max_count_count |-> BitOr(192, 62 - 1)]
       \o (IF rest_count > 0 THEN <<BitOr(192, AsU8(rest_count))>> ELSE <<>>)

\* run_bytes cutting the run into pieces of 64, all the 6-bit field can hold
M_run_bytes_64(count) ==
    LET max_count_count == count \div 64
        rest_count == count % 64
    IN [i \in 1..max_count_count |-> BitOr(192, 64 - 1)]
       \o (IF rest_count > 0 THEN <<BitOr(192, AsU8(rest_count - 1))>> ELSE <<>>)

run_bytes(count) ==
    LET max_count_count == count \div 62
        rest_count == count % 62
    IN [i \in 1..max_count_count |-> BitOr(192, 62 - 1)]
       \o (IF rest_count > 0 THEN <<BitOr(192, AsU8(rest_count - 1))>> ELSE <<>>)

\* the DIFF range taken as -2..=2
M_diff_fits_small(d) == d[1] \in -2..2 /\ d[2] \in -2..2 /\ d[3] \in -2..2

diff_fits_small(d) == d[1] \in -2..1 /\ d[2] \in -2..1 /\ d[3] \in -2..1

\* the LUMA step never taken
M_luma_fits(rg, g, bg) == FALSE

luma_fits(rg, g, bg) == rg \in -8..7 /\ g \in -16..15 /\ bg \in -8..7
diff_fits_indexed(d) == d[1] \in -2..1 /\ d[2] \in -4..3 /\ d[3] \in -2..1

\* the instances diff_n::<5> and diff_n::<6>, tabulated over the channel values
diff_n_5 == [a \in 0..31 |-> [b \in 0..31 |-> diff_n(5, a, b)]]
diff_n_6 == [a \in 0..63 |-> [b \in 0..63 |-> diff_n(6, a, b)]]

\* (diff_n::<5>(r, r_o), diff_n::<6>(g, g_o), diff_n::<5>(b, b_o))
diff3(c, o) == <<diff_n_5[c[1]][o[1]], diff_n_6[c[2]][o[2]], diff_n_5[c[3]][o[3]]>>

\* find_map_slots keeping the last slot that fits, not the first
M_find_map_slots(arr_components, c) ==
    LET S == {i \in 0..63 : diff_fits_indexed(diff3(c, arr_components[i]))}
    IN {i \in S : \A j \in S : j <= i}

\* arr_components.iter().enumerate().find_map(..): the first slot that fits
find_map_slots(arr_components, c) ==
    {i \in 0..63 : diff_fits_indexed(diff3(c, arr_components[i]))}

\* diff_byte storing the differences without the bias of 2
M_diff_byte(d) ==
    BitOr(BitOr(BitOr(Q565_OP_DIFF, AsU8(Shl8(AsU8(d[1]) % 4, 4))),
                AsU8(Shl8(AsU8(d[2]) % 4, 2))), AsU8(d[3]) % 4)

diff_byte(d) ==
    BitOr(BitOr(BitOr(Q565_OP_DIFF, AsU8(Shl8(AsU8(d[1] + 2), 4))),
                AsU8(Shl8(AsU8(d[2] + 2), 2))), AsU8(d[3] + 2))

luma_bytes(rg, g, bg) ==
    <<BitOr(Q565_OP_LUMA, AsU8(g + 16)), BitOr(Shl8(AsU8(rg + 8), 4), AsU8(bg + 8))>>

diff_indexed_bytes(d, i) ==
    <<BitOr(BitOr(Q565_OP_DIFF_INDEXED, Shl8(AsU8(d[2] + 4), 2)), AsU8(d[1] + 2)),
      BitOr(Shl8(AsU8(d[3] + 2), 6), AsU8(i))>>

\* encode_iter that leaves prev_components as they were when it emits an INDEX
M_encode_iter(ctx, px, pos) ==
    LET pixel == px[pos + 1]
        hist(op, n, bs) == [op |-> op, pixel |-> pixel, count |-> n, bytes |-> bs,
                            pos |-> pos, prev |-> ctx.prev, arr |-> ctx.arr]
    IN
    IF is_repeat(pixel, ctx.prev) THEN
        LET repeats == take_while_count(px, pos + 2, ctx.prev)
            count == repeats + 1
        IN [ctx |-> ctx, pos |-> pos + 1 + repeats, last |-> hist("RUN", count, run_bytes(count))]
    ELSE
        LET c == decode_565(pixel)
            p_c == ctx.prev_components
            ctx1 == [ctx EXCEPT !.prev = pixel, !.prev_components = c]
            index == hash(pixel)
            d == diff3(c, p_c)
            rg_diff == d[1] - d[2]
            bg_diff == d[3] - d[2]
            slots == find_map_slots(ctx.arr_components, c)
            ctx2 == [ctx1 EXCEPT !.arr[index] = pixel, !.arr_components[index] = c]
        IN
        IF ctx.arr[index] = pixel THEN
            [ctx |-> [ctx EXCEPT !.prev = pixel], pos |-> pos + 1,
             last |-> hist("INDEX", 1, <<index>>)]
        ELSE IF diff_fits_small(d) THEN
            [ctx |-> ctx1, pos |-> pos + 1, last |-> hist("DIFF", 1, <<diff_byte(d)>>)]
        ELSE IF luma_fits(rg_diff, d[2], bg_diff) THEN
            [ctx |-> ctx2, pos |-> pos + 1,
             last |-> hist("LUMA", 1, luma_bytes(rg_diff, d[2], bg_diff))]
        ELSE IF slots # {} THEN
            LET i == SetMin(slots)
            IN [ctx |-> ctx2, pos |-> pos + 1,
                last |-> hist("DIFF_INDEXED", 1,
                              diff_indexed_bytes(diff3(c, ctx.arr_components[i]), i))]
        ELSE
            [ctx |-> ctx2, pos |-> pos + 1,
             last |-> hist("RGB565", 1, <<Q565_OP_RGB565>> \o to_le_bytes(pixel))]

encode_iter(ctx, px, pos) ==
    LET pixel == px[pos + 1]
        hist(op, n, bs) == [op |-> op, pixel |-> pixel, count |-> n, bytes |-> bs,
                            pos |-> pos, prev |-> ctx.prev, arr |-> ctx.arr]
    IN
    IF is_repeat(pixel, ctx.prev) THEN
        LET repeats == take_while_count(px, pos + 2, ctx.prev)
            count == repeats + 1
        IN [ctx |-> ctx, pos |-> pos + 1 + repeats, last |-> hist("RUN", count, run_bytes(count))]
    ELSE
        LET c == decode_565(pixel)
            p_c == ctx.prev_components
            ctx1 == [ctx EXCEPT !.prev = pixel, !.prev_components = c]
            index == hash(pixel)
            d == diff3(c, p_c)
            rg_diff == d[1] - d[2]
            bg_diff == d[3] - d[2]
            slots == find_map_slots(ctx.arr_components, c)
            ctx2 == [ctx1 EXCEPT !.arr[index] = pixel, !.arr_components[index] = c]
        IN
        IF ctx.arr[index] = pixel THEN
            [ctx |-> ctx1, pos |-> pos + 1, last |-> hist("INDEX", 1, <<index>>)]
        ELSE IF diff_fits_small(d) THEN
            [ctx |-> ctx1, pos |-> pos + 1, last |-> hist("DIFF", 1, <<diff_byte(d)>>)]
        ELSE IF luma_fits(rg_diff, d[2], bg_diff) THEN
            [ctx |-> ctx2, pos |-> pos + 1,
             last |-> hist("LUMA", 1, luma_bytes(rg_diff, d[2], bg_diff))]
        ELSE IF slots # {} THEN
            LET i == SetMin(slots)
            IN [ctx |-> ctx2, pos |-> pos + 1,
                last |-> hist("DIFF_INDEXED", 1,
                              diff_indexed_bytes(diff3(c, ctx.arr_components[i]), i))]
        ELSE
            [ctx |-> ctx2, pos |-> pos + 1,
             last |-> hist("RGB565", 1, <<Q565_OP_RGB565>> \o to_le_bytes(pixel))]

\* the dimension check refusing only images with too many pixels
M_dimensions_differ(wd, ht, px) == wd * ht < Len(px)

\* usize::from(width) * usize::from(height) != pixels.len()
dimensions_differ(wd, ht, px) == wd * ht # Len(px)

header_bytes(wd, ht) == <<113, 53, 54, 53>> \o to_le_bytes(wd) \o to_le_bytes(ht)

(***************************************************************************)
(* Actions of encode_to_vec (encode.rs).                                   *)
(***************************************************************************)
\* where the caller of encode_to_vec goes on: the round trip, to the
\* writer-based encoder; the caller of a sequence of frames, to
\* decode_with_state, and past a frame that the encoder refused
after_encode_to_vec(ok) ==
    IF fno = 0 THEN "encode" ELSE IF ok THEN "decode" ELSE "next_frame"

\* the dimension check and the header
EncodeToVecStart ==
    /\ pc = "encode_to_vec" /\ eret = "none"
    /\ IF dimensions_differ(width, height, pixels)
       THEN /\ eret' = "false"
            /\ pc' = after_encode_to_vec(FALSE)
            /\ UNCHANGED w
       ELSE /\ w' = w \o header_bytes(width, height)
            /\ eret' = "running"
            /\ UNCHANGED pc
    /\ UNCHANGED <<ivars, enc, epos, elast, e2vars, dvars, uvars, svars, bvars, hres, vvars, qvars, alast, fno, aenc, nres>>

\* one pass through the loop body: one pixel, or one whole run
EncodeToVecPixel ==
    /\ pc = "encode_to_vec" /\ eret = "running"
    /\ epos < Len(pixels)
    /\ \E r \in {encode_iter(enc, pixels, epos)} :
          /\ enc' = r.ctx
          /\ epos' = r.pos
          /\ elast' = r.last
          /\ w' = w \o r.last.bytes
    /\ UNCHANGED <<pc, ivars, eret, e2vars, dvars, uvars, svars, bvars, hres, vvars, qvars, alast, fno, aenc, nres>>

\* EncodeToVecEnd that returns without writing the end marker
M_EncodeToVecEnd ==
    /\ pc = "encode_to_vec" /\ eret = "running"
    /\ epos = Len(pixels)
    /\ eret' = "true"
    /\ elast' = [NoIter EXCEPT !.op = "END", !.pos = epos, !.prev = enc.prev, !.arr = enc.arr]
    /\ pc' = after_encode_to_vec(TRUE)
    /\ UNCHANGED <<ivars, enc, w, epos, e2vars, dvars, uvars, svars, bvars, hres, vvars, qvars, alast, fno, aenc, nres>>

\* the iterator is exhausted: the end marker
EncodeToVecEnd ==
    /\ pc = "encode_to_vec" /\ eret = "running"
    /\ epos = Len(pixels)
    /\ w' = Append(w, Q565_OP_END)
    /\ eret' = "true"
    /\ elast' = [NoIter EXCEPT !.op = "END", !.bytes = <<Q565_OP_END>>, !.pos = epos,
                               !.prev = enc.prev, !.arr = enc.arr]
    /\ pc' = after_encode_to_vec(TRUE)
    /\ UNCHANGED <<ivars, enc, epos, e2vars, dvars, uvars, svars, bvars, hres, vvars, qvars, alast, fno, aenc, nres>>

(***************************************************************************)
(* encode/std_api.rs: encode = encode_header + encode_pixels, one call.    *)
(***************************************************************************)
\* ensure!(usize::from(width) * usize::from(height) == pixels.len(), ..)
ensure_dimensions(wd, ht, px) == wd * ht = Len(px)

\* encode_header writing the height before the width
M_encode_header(wd, ht) ==
    <<113, 53, 54, 53>> \o to_le_bytes(ht) \o to_le_bytes(wd)

encode_header(wd, ht) ==
    LET w1 == to_le_bytes(wd)[1]
        w2b == to_le_bytes(wd)[2]
        h1 == to_le_bytes(ht)[1]
        h2 == to_le_bytes(ht)[2]
    IN <<113, 53, 54, 53, w1, w2b, h1, h2>>

RECURSIVE encode_pixels(_, _, _, _)
encode_pixels(ctx, px, pos, out) ==
    IF pos >= Len(px) THEN [ctx |-> ctx, out |-> Append(out, Q565_OP_END)]
    ELSE
    LET pixel == px[pos + 1] IN
    IF pixel = ctx.prev THEN
        LET repeats == take_while_count(px, pos + 2, ctx.prev)
            count == repeats + 1
            max_count_count == count \div 62
            rest_count == count % 62
        IN encode_pixels(ctx, px, pos + 1 + repeats,
               out \o [i \in 1..max_count_count |-> BitOr(Q565_OP_RUN, 62 - 1)]
                   \o (IF rest_count > 0
                       THEN <<BitOr(Q565_OP_RUN, AsU8(rest_count - 1))>> ELSE <<>>))
    ELSE
        LET c == decode_565(pixel)
            p_c == ctx.prev_components
            ctx1 == [ctx EXCEPT !.prev = pixel, !.prev_components = c]
            index == hash(pixel)
        IN
        IF ctx.arr[index] = pixel THEN
            encode_pixels(ctx1, px, pos + 1, Append(out, BitOr(Q565_OP_INDEX, index)))
        ELSE
        LET d == diff3(c, p_c) IN
        IF diff_fits_small(d) THEN
            encode_pixels(ctx1, px, pos + 1, Append(out, diff_byte(d)))
        ELSE
        LET rg_diff == d[1] - d[2]
            bg_diff == d[3] - d[2]
            ctx2 == [ctx1 EXCEPT !.arr[index] = pixel, !.arr_components[index] = c]
        IN
        IF luma_fits(rg_diff, d[2], bg_diff) THEN
            encode_pixels(ctx2, px, pos + 1, out \o luma_bytes(rg_diff, d[2], bg_diff))
        ELSE
        LET slots == find_map_slots(ctx.arr_components, c) IN
        IF slots # {} THEN
            encode_pixels(ctx2, px, pos + 1,
                out \o diff_indexed_bytes(diff3(c, ctx.arr_components[SetMin(slots)]),
                                          SetMin(slots)))
        ELSE
            encode_pixels(ctx2, px, pos + 1,
                out \o <<Q565_OP_RGB565>> \o to_le_bytes(pixel))

\* Q565EncodeContext::encode on a fresh context and an empty writer
Encode ==
    /\ pc = "encode" /\ eret2 = "none"
    /\ IF ~ensure_dimensions(width, height, pixels)
       THEN /\ eret2' = "InvalidDimensions"
            /\ UNCHANGED <<enc2, w2>>
       ELSE \E r \in {encode_pixels(enc2, pixels, 0, w2 \o encode_header(width, height))} :
               /\ enc2' = r.ctx
               /\ w2' = r.out
               /\ eret2' = "Ok"
    /\ pc' = IF eret = "true" THEN "decode" ELSE "done"
    /\ UNCHANGED <<ivars, evars, dvars, uvars, svars, bvars, hres, vvars, qvars, alast, fno, aenc, nres>>

(***************************************************************************)
(* decode.rs: the sink UnsafeSliceDecodeOutput.  A cell of the slice is    *)
(* the pair of bytes of one u16 in memory.                                 *)
(***************************************************************************)
UnsafeSliceDecodeOutput_new(len) ==
    [output |-> [i \in 1..len |-> <<0, 0>>], output_idx |-> 0, oob |-> FALSE]

write_pixel(sink, B, color) ==
    [output |-> IF sink.output_idx < Len(sink.output)
                THEN [sink.output EXCEPT ![sink.output_idx + 1] = to_wire(B, color)]
                ELSE sink.output,
     output_idx |-> sink.output_idx + 1,
     oob |-> sink.oob \/ sink.output_idx >= Len(sink.output)]

write_many_pixels(sink, B, color, count) ==
    [output |-> [i \in 1..Len(sink.output) |->
                    IF i > sink.output_idx /\ i <= sink.output_idx + count
                    THEN to_wire(B, color) ELSE sink.output[i]],
     output_idx |-> sink.output_idx + count,
     oob |-> sink.oob \/ sink.output_idx + count > Len(sink.output)]

max_len(sink) == Len(sink.output)
current_output_position(sink) == sink.output_idx

Q565DecodeContext_new == [prev |-> 0, arr |-> [i \in 0..63 |-> 0]]

(***************************************************************************)
(* decode/ops.rs                                                           *)
(***************************************************************************)
indexed_diff(color_array, byte, second_byte) ==
    LET g_diff == AsI8(Shr8(BitAnd(byte, 28), 2)) - 4
        r_diff == AsI8(BitAnd(byte, 3)) - 2
        b_diff == AsI8(Shr8(second_byte, 6)) - 2
        index == BitAnd(second_byte, 63)
    IN apply_diff(color_array[index], r_diff, g_diff, b_diff)

direct_small_diff(prev, byte) ==
    LET r_diff == AsI8(BitAnd(Shr8(byte, 4), 3)) - 2
        g_diff == AsI8(BitAnd(Shr8(byte, 2), 3)) - 2
        b_diff == AsI8(BitAnd(byte, 3)) - 2
    IN apply_diff(prev, r_diff, g_diff, b_diff)

\* direct_bigger_diff with the blue difference taken as sent, green not added
M_direct_bigger_diff(prev, byte, rg_bg_diffs) ==
    LET g_diff == AsI8(BitAnd(byte, 31)) - 16
        rg_diff == AsI8(Shr8(rg_bg_diffs, 4)) - 8
        bg_diff == AsI8(BitAnd(rg_bg_diffs, 15)) - 8
    IN apply_diff(prev, rg_diff + g_diff, g_diff, bg_diff)

direct_bigger_diff(prev, byte, rg_bg_diffs) ==
    LET g_diff == AsI8(BitAnd(byte, 31)) - 16
        rg_diff == AsI8(Shr8(rg_bg_diffs, 4)) - 8
        bg_diff == AsI8(BitAnd(rg_bg_diffs, 15)) - 8
        r_diff == rg_diff + g_diff
        b_diff == bg_diff + g_diff
    IN apply_diff(prev, r_diff, g_diff, b_diff)

(***************************************************************************)
(* decode.rs: the validating decoder.                                      *)
(***************************************************************************)
\* decode_header looking at the magic before the length
M_decode_header(data) ==
    IF Len(data) >= 4 /\ SubSeq(data, 1, 4) # <<113, 53, 54, 53>>
    THEN [err |-> "InvalidMagic", width |-> 0, height |-> 0]
    ELSE IF ~(Len(data) >= 9) THEN [err |-> "UnexpectedEof", width |-> 0, height |-> 0]
    ELSE [err |-> "", width |-> from_le_bytes(<<data[5], data[6]>>),
          height |-> from_le_bytes(<<data[7], data[8]>>)]

\* decode_header: the error, or "" with the header and the rest of the input
decode_header(data) ==
    IF ~(Len(data) >= 9) THEN [err |-> "UnexpectedEof", width |-> 0, height |-> 0]
    ELSE IF SubSeq(data, 1, 4) # <<113, 53, 54, 53>>
    THEN [err |-> "InvalidMagic", width |-> 0, height |-> 0]
    ELSE [err |-> "", width |-> from_le_bytes(<<data[5], data[6]>>),
          height |-> from_le_bytes(<<data[7], data[8]>>)]

\* set_pixel_infallible_output that writes the pixel and leaves prev as it is
M_set_pixel_infallible_output(ctx, B, pixel, sink) ==
    [ctx |-> ctx, sink |-> write_pixel(sink, B, pixel)]

set_pixel_infallible_output(ctx, B, pixel, sink) ==
    [ctx |-> [ctx EXCEPT !.prev = pixel], sink |-> write_pixel(sink, B, pixel)]

\* insert_and_set that stores the pixel in the slot of the pixel before it
M_insert_and_set(ctx, B, pixel, sink) ==
    set_pixel_infallible_output([ctx EXCEPT !.arr[hash(ctx.prev)] = pixel], B, pixel, sink)

\* the tail of the loop body: insert into arr, then set the pixel
insert_and_set(ctx, B, pixel, sink) ==
    set_pixel_infallible_output([ctx EXCEPT !.arr[hash(pixel)] = pixel], B, pixel, sink)

\* run_count without the bias of the stored length
M_run_count(byte) == BitAnd(byte, 63)

\* let count = (byte & 0b0011_1111) + 1
run_count(byte) == BitAnd(byte, 63) + 1

\* one pass through the loop of decode_data; data is the input after the header
\* and idx the number of bytes the iterator has handed out
decode_data_iter(ctx, data, idx, sink, B) ==
    LET stop(st, n) == [ctx |-> ctx, sink |-> sink, idx |-> n, status |-> st]
        go(r, n) == [ctx |-> r.ctx, sink |-> r.sink, idx |-> n, status |-> "continue"]
        avail == Len(data) - idx
    IN
    IF avail < 1 THEN stop("UnexpectedEof", idx)
    ELSE
    LET byte == data[idx + 1]
        op == Shr8(byte, 6)
    IN
    CASE op = 0 ->
           go(set_pixel_infallible_output(ctx, B, ctx.arr[byte], sink), idx + 1)
      [] op = 1 ->
           go(set_pixel_infallible_output(ctx, B, direct_small_diff(ctx.prev, byte), sink),
              idx + 1)
      [] op = 2 ->
           IF avail < 2 THEN stop("UnexpectedEof", idx + 1)
           ELSE IF BitAnd(byte, 32) = 0
           THEN go(insert_and_set(ctx, B, direct_bigger_diff(ctx.prev, byte, data[idx + 2]),
                                  sink), idx + 2)
           ELSE go(insert_and_set(ctx, B, indexed_diff(ctx.arr, byte, data[idx + 2]), sink),
                   idx + 2)
      [] op = 3 ->
           IF byte = 254 THEN
               IF avail < 3 THEN stop("UnexpectedEof", IF avail < 2 THEN idx + 1 ELSE idx + 2)
               ELSE go(insert_and_set(ctx, B, from_le_bytes(<<data[idx + 2], data[idx + 3]>>),
                                      sink), idx + 3)
           ELSE IF byte # 255 THEN
               LET count == run_count(byte)
               IN go([ctx |-> ctx, sink |-> write_many_pixels(sink, B, ctx.prev, count)],
                     idx + 1)
           ELSE stop("break", idx + 1)

\* where the caller of decode goes on: the round trip, to decode_to_vec; the
\* caller of a sequence of frames, to the next frame
after_decode == IF fno = 0 THEN "decode_to_vec" ELSE "next_frame"

\* DecodeStart that stores the width it read as PREV before it validates
M_DecodeStart ==
    /\ pc = "decode" /\ dret = "none"
    /\ LET h == decode_header(w)
       IN IF h.err # ""
          THEN /\ dret' = h.err /\ pc' = after_decode
               /\ UNCHANGED <<dhdr, dec>>
          ELSE /\ dhdr' = <<h.width, h.height>>
               /\ dec' = [dec EXCEPT !.prev = h.width]
               /\ IF ~(max_len(dout) >= h.width * h.height)
                  THEN dret' = "OutputTooSmall" /\ pc' = after_decode
                  ELSE dret' = "running" /\ UNCHANGED pc
    /\ UNCHANGED <<ivars, evars, e2vars, din, dout, uvars, svars, bvars, hres, vvars, qvars, alast, fno, aenc, nres>>

\* decode: header, capacity check; the slice holds width * height pixels
DecodeStart ==
    /\ pc = "decode" /\ dret = "none"
    /\ LET h == decode_header(w)
       IN IF h.err # ""
          THEN /\ dret' = h.err /\ pc' = after_decode
               /\ UNCHANGED dhdr
          ELSE /\ dhdr' = <<h.width, h.height>>
               /\ IF ~(max_len(dout) >= h.width * h.height)
                  THEN dret' = "OutputTooSmall" /\ pc' = after_decode
                  ELSE dret' = "running" /\ UNCHANGED pc
    /\ UNCHANGED <<ivars, evars, e2vars, dec, din, dout, uvars, svars, bvars, hres, vvars, qvars, alast, fno, aenc, nres>>

\* DecodeOp that takes the end of the input for the end marker
M_DecodeOp ==
    /\ pc = "decode" /\ dret = "running"
    /\ \E r \in {decode_data_iter(dec, SubSeq(w, 9, Len(w)), din, dout, "LE")} :
          /\ dec' = r.ctx
          /\ din' = r.idx
          /\ dout' = r.sink
          /\ IF r.status = "continue" THEN UNCHANGED <<dret, pc>>
             ELSE /\ dret' = "Ok"
                  /\ pc' = after_decode
    /\ UNCHANGED <<ivars, evars, e2vars, dhdr, uvars, svars, bvars, hres, vvars, qvars, alast, fno, aenc, nres>>

\* one opcode of decode_data, or its return
DecodeOp ==
    /\ pc = "decode" /\ dret = "running"
    /\ \E r \in {decode_data_iter(dec, SubSeq(w, 9, Len(w)), din, dout, "LE")} :
          /\ dec' = r.ctx
          /\ din' = r.idx
          /\ dout' = r.sink
          /\ IF r.status = "continue" THEN UNCHANGED <<dret, pc>>
             ELSE /\ dret' = IF r.status = "break" THEN "Ok" ELSE r.status
                  /\ pc' = after_decode
    /\ UNCHANGED <<ivars, evars, e2vars, dhdr, uvars, svars, bvars, hres, vvars, qvars, alast, fno, aenc, nres>>

(***************************************************************************)
(* decode/alloc_api.rs: decode_to_vec, the validating decoder that appends *)
(* to a Vec<u16>.                                                          *)
(***************************************************************************)
\* the header checks of decode_to_vec_with_state
decode_to_vec_header(data) ==
    IF Len(data) < 9 THEN [err |-> "UnexpectedEof", width |-> 0, height |-> 0]
    ELSE IF SubSeq(data, 1, 4) # <<113, 53, 54, 53>>
    THEN [err |-> "InvalidMagic", width |-> 0, height |-> 0]
    ELSE [err |-> "", width |-> from_le_bytes(<<data[5], data[6]>>),
          height |-> from_le_bytes(<<data[7], data[8]>>)]

\* one pass through the loop of decode_to_vec_with_state
decode_to_vec_iter(ctx, data, idx, out, B) ==
    LET stop(st, n) == [ctx |-> ctx, out |-> out, idx |-> n, status |-> st]
        push(c, pixel, n) == [ctx |-> [c EXCEPT !.prev = pixel],
                              out |-> Append(out, to_wire(B, pixel)),
                              idx |-> n, status |-> "continue"]
        insert(pixel, n) == push([ctx EXCEPT !.arr[hash(pixel)] = pixel], pixel, n)
        avail == Len(data) - idx
    IN
    IF avail < 1 THEN stop("UnexpectedEof", idx)
    ELSE
    LET byte == data[idx + 1]
        op == Shr8(byte, 6)
    IN
    CASE op = 3 ->
           IF byte = 255 THEN stop("break", idx + 1)
           ELSE IF byte = 254 THEN
               IF avail < 3 THEN stop("UnexpectedEof", Len(data))
               ELSE insert(from_le_bytes(<<data[idx + 2], data[idx + 3]>>), idx + 3)
           ELSE
               LET count == BitAnd(byte, 63) + 1
               IN [ctx |-> ctx, out |-> out \o [i \in 1..count |-> to_wire(B, ctx.prev)],
                   idx |-> idx + 1, status |-> "continue"]
      [] op = 0 -> push(ctx, ctx.arr[byte], idx + 1)
      [] op = 2 ->
           IF avail < 2 THEN stop("UnexpectedEof", Len(data))
           ELSE IF BitAnd(byte, 32) = 0 THEN
               LET g_diff == AsI8(BitAnd(byte, 31)) - 16
                   rg_bg_diffs == data[idx + 2]
                   rg_diff == AsI8(Shr8(rg_bg_diffs, 4)) - 8
                   bg_diff == AsI8(BitAnd(rg_bg_diffs, 15)) - 8
                   r_diff == rg_diff + g_diff
                   b_diff == bg_diff + g_diff
               IN insert(apply_diff(ctx.prev, r_diff, g_diff, b_diff), idx + 2)
           ELSE
               LET g_diff == AsI8(Shr8(BitAnd(byte, 28), 2)) - 4
                   r_diff == AsI8(BitAnd(byte, 3)) - 2
                   second_byte == data[idx + 2]
                   b_diff == AsI8(Shr8(second_byte, 6)) - 2
                   index == BitAnd(second_byte, 63)
               IN insert(apply_diff(ctx.arr[index], r_diff, g_diff, b_diff), idx + 2)
      [] op = 1 ->
           LET r_diff == AsI8(BitAnd(Shr8(byte, 4), 3)) - 2
               g_diff == AsI8(BitAnd(Shr8(byte, 2), 3)) - 2
               b_diff == AsI8(BitAnd(byte, 3)) - 2
           IN push(ctx, apply_diff(ctx.prev, r_diff, g_diff, b_diff), idx + 1)

\* the safety contract of the unchecked decoders: a valid image, which the
\* validating decoders have decoded to its END, and which the slice decoder
\* has either refused for its size alone or written inside its slice
unchecked_contract(ret, sink) == ret = "OutputTooSmall" \/ (ret = "Ok" /\ ~sink.oob)

\* decode_to_vec: the header. The unchecked decoders that follow are called
\* only where their safety contract holds.
DecodeToVecStart ==
    /\ pc = "decode_to_vec" /\ vret = "none"
    /\ LET h == decode_to_vec_header(w)
       IN IF h.err # ""
          THEN /\ vret' = h.err /\ pc' = "done"
               /\ UNCHANGED vhdr
          ELSE /\ vhdr' = <<h.width, h.height>>
               /\ vret' = "running" /\ UNCHANGED pc
    /\ UNCHANGED <<ivars, evars, e2vars, dvars, vdec, vin, vout, uvars, svars, bvars, hres, qvars, alast, fno, aenc, nres>>

\* one opcode of decode_to_vec_with_state, or its return
DecodeToVecOp ==
    /\ pc = "decode_to_vec" /\ vret = "running"
    /\ \E r \in {decode_to_vec_iter(vdec, SubSeq(w, 9, Len(w)), vin, vout, "LE")} :
          /\ vdec' = r.ctx
          /\ vin' = r.idx
          /\ vout' = r.out
          /\ IF r.status = "continue" THEN UNCHANGED <<vret, pc>>
             ELSE /\ vret' = IF r.status = "break" THEN "Ok" ELSE r.status
                  /\ pc' = IF r.status = "break" /\ unchecked_contract(dret, dout)
                           THEN "decode_unchecked" ELSE "done"
    /\ UNCHANGED <<ivars, evars, e2vars, dvars, vhdr, uvars, svars, bvars, hres, qvars, alast, fno, aenc, nres>>

(***************************************************************************)
(* decode.rs: the unchecked decoder.  A read past the end of the input     *)
(* yields whatever the memory holds: any byte.                             *)
(***************************************************************************)
\* *data.get_unchecked(i): past the end, ub[k] is the byte found k bytes beyond it
get_unchecked(data, i, ub) == IF i < Len(data) THEN data[i + 1] ELSE ub[i - Len(data) + 1]

\* what n reads from index idx on can find past the end of data
PastEnd(data, idx, n) ==
    IF idx + n <= Len(data) THEN {<<>>}
    ELSE [1..(idx + n - Len(data)) -> {0, 255}]

\* decode_header_unchecked reading the two fields big-endian
M_decode_header_unchecked(data, ub) ==
    [width |-> from_le_bytes(<<get_unchecked(data, 5, ub), get_unchecked(data, 4, ub)>>),
     height |-> from_le_bytes(<<get_unchecked(data, 7, ub), get_unchecked(data, 6, ub)>>)]

decode_header_unchecked(data, ub) ==
    [width |-> from_le_bytes(<<get_unchecked(data, 4, ub), get_unchecked(data, 5, ub)>>),
     height |-> from_le_bytes(<<get_unchecked(data, 6, ub), get_unchecked(data, 7, ub)>>)]

\* the capacity check refusing also a slice of exactly width * height cells
M_output_too_small(sink, wd, ht) == max_len(sink) <= wd * ht

\* output.max_len().map(|max_len| max_len < width * height).unwrap_or(false)
output_too_small(sink, wd, ht) == max_len(sink) < wd * ht

decode_data_unchecked_iter(ctx, data, idx, sink, B, ub) ==
    LET go(r, n) == [ctx |-> r.ctx, sink |-> r.sink, idx |-> n, status |-> "continue"]
        byte == get_unchecked(data, idx, ub)
        op == Shr8(byte, 6)
    IN
    CASE op = 0 ->
           go(set_pixel_infallible_output(ctx, B, ctx.arr[byte], sink), idx + 1)
      [] op = 1 ->
           go(set_pixel_infallible_output(ctx, B, direct_small_diff(ctx.prev, byte), sink),
              idx + 1)
      [] op = 2 ->
           IF BitAnd(byte, 32) = 0
           THEN go(insert_and_set(ctx, B, direct_bigger_diff(ctx.prev, byte,
                                      get_unchecked(data, idx + 1, ub)), sink), idx + 2)
           ELSE go(insert_and_set(ctx, B, indexed_diff(ctx.arr, byte,
                                      get_unchecked(data, idx + 1, ub)), sink), idx + 2)
      [] op = 3 ->
           IF byte = 254 THEN
               go(insert_and_set(ctx, B,
                      from_le_bytes(<<get_unchecked(data, idx + 1, ub),
                                      get_unchecked(data, idx + 2, ub)>>), sink), idx + 3)
           ELSE IF byte # 255 THEN
               LET count == BitAnd(byte, 63) + 1
               IN go([ctx |-> ctx, sink |-> write_many_pixels(sink, B, ctx.prev, count)],
                     idx + 1)
           ELSE [ctx |-> ctx, sink |-> sink, idx |-> idx + 1, status |-> "break"]

\* decode_unchecked: header, capacity check
DecodeUncheckedStart ==
    /\ pc = "decode_unchecked" /\ uret = "none"
    /\ \E ub \in PastEnd(w, 4, 4) :
         LET h == decode_header_unchecked(w, ub)
         IN /\ uhdr' = <<h.width, h.height>>
            /\ IF output_too_small(uout, h.width, h.height)
               THEN uret' = "OutputTooSmall"
                    /\ pc' = IF eret = "true" THEN "done" ELSE "decode_to_slice_unchecked"
               ELSE uret' = "running" /\ UNCHANGED pc
    /\ UNCHANGED <<ivars, evars, e2vars, dvars, udec, uin, uout, svars, bvars, hres, vvars, qvars, alast, fno, aenc, nres>>

\* one opcode of decode_data_unchecked, or its return
DecodeUncheckedOp ==
    /\ pc = "decode_unchecked" /\ uret = "running"
    /\ \E ub \in PastEnd(SubSeq(w, 9, Len(w)), uin, 3) :
         \E r \in {decode_data_unchecked_iter(udec, SubSeq(w, 9, Len(w)), uin, uout,
                                                "LE", ub)} :
            /\ udec' = r.ctx
            /\ uin' = r.idx
            /\ uout' = r.sink
            /\ IF r.status = "continue" THEN UNCHANGED <<uret, pc>>
               ELSE uret' = "Ok" /\ pc' = "streaming"
    /\ UNCHANGED <<ivars, evars, e2vars, dvars, uhdr, svars, bvars, hres, vvars, qvars, alast, fno, aenc, nres>>

(***************************************************************************)
(* decode/streaming_no_header.rs                                           *)
(***************************************************************************)
Default == [tag |-> "Default", byte |-> 0]
\* LumaOrDiffIndexedByte2 taken for Default: the byte that follows the first
\* byte of a LUMA or DIFF_INDEXED is read as an opcode byte
M_LumaOrDiffIndexedByte2(b) == [tag |-> "Default", byte |-> 0]

\* LumaOrDiffIndexedByte2 that keeps the six low bits of the byte only
M_LumaOrDiffIndexedByte2_low(b) == [tag |-> "LumaOrDiffIndexedByte2", byte |-> BitAnd(b, 63)]

LumaOrDiffIndexedByte2(b) == [tag |-> "LumaOrDiffIndexedByte2", byte |-> b]
\* RawRgb565Byte1 taken for Default: the tag 0xFE does not change the state
M_RawRgb565Byte1 == [tag |-> "Default", byte |-> 0]

RawRgb565Byte1 == [tag |-> "RawRgb565Byte1", byte |-> 0]
\* RawRgb565Byte2 that does not keep the pending byte
M_RawRgb565Byte2(b) == [tag |-> "RawRgb565Byte2", byte |-> 0]

RawRgb565Byte2(b) == [tag |-> "RawRgb565Byte2", byte |-> b]

Q565StreamingDecodeContext_new ==
    [state |-> Default, prev |-> 0, arr |-> [i \in 0..63 |-> 0]]

\* set_pixel: o is the output slice of this call with its output_idx
streaming_set_pixel(ctx, B, pixel, o) ==
    [ctx |-> [ctx EXCEPT !.prev = pixel],
     o |-> [output |-> IF o.output_idx < Len(o.output)
                       THEN [o.output EXCEPT ![o.output_idx + 1] = to_wire(B, pixel)]
                       ELSE o.output,
            output_idx |-> o.output_idx + 1,
            touched |-> o.touched \cup {o.output_idx},
            oob |-> o.oob \/ o.output_idx >= Len(o.output)]]

\* streaming_fill that advances output_idx by one, not by the run length
M_streaming_fill(ctx, B, count, o) ==
    [ctx |-> ctx,
     o |-> [output |-> [i \in 1..Len(o.output) |->
                           IF i > o.output_idx /\ i <= o.output_idx + count
                           THEN to_wire(B, ctx.prev) ELSE o.output[i]],
            output_idx |-> o.output_idx + 1,
            touched |-> o.touched \cup (o.output_idx..(o.output_idx + count - 1)),
            oob |-> o.oob \/ o.output_idx + count > Len(o.output)]]

\* output[output_idx..][..count].fill(to_wire(prev))
streaming_fill(ctx, B, count, o) ==
    [ctx |-> ctx,
     o |-> [output |-> [i \in 1..Len(o.output) |->
                           IF i > o.output_idx /\ i <= o.output_idx + count
                           THEN to_wire(B, ctx.prev) ELSE o.output[i]],
            output_idx |-> o.output_idx + count,
            touched |-> o.touched \cup (o.output_idx..(o.output_idx + count - 1)),
            oob |-> o.oob \/ o.output_idx + count > Len(o.output)]]

\* streaming_emit that does not insert the pixel into arr
M_streaming_emit(ctx, B, pixel, o) ==
    LET r == streaming_set_pixel(ctx, B, pixel, o)
    IN [ctx |-> [r.ctx EXCEPT !.state = Default], o |-> r.o]

\* the tail of the loop body: insert into arr, set the pixel, back to Default
streaming_emit(ctx, B, pixel, o) ==
    LET r == streaming_set_pixel([ctx EXCEPT !.arr[hash(pixel)] = pixel], B, pixel, o)
    IN [ctx |-> [r.ctx EXCEPT !.state = Default], o |-> r.o]

RECURSIVE streaming_loop(_, _, _, _, _)
streaming_loop(ctx, input, input_idx, o, B) ==
    LET return(c, n, how) ==
            [ctx |-> c, output |-> o.output, ret |-> o.output_idx, consumed |-> n,
             touched |-> o.touched, oob |-> o.oob, how |-> how]
        continue(r) == streaming_loop(r.ctx, input, input_idx + 1, r.o, B)
    IN
    IF ~(input_idx < Len(input)) THEN return(ctx, input_idx, "input")
    ELSE
    LET byte == input[input_idx + 1] IN
    CASE ctx.state.tag = "Default" ->
           LET op == Shr8(byte, 6) IN
           IF op = 0 THEN continue(streaming_set_pixel(ctx, B, ctx.arr[byte], o))
           ELSE IF op = 3 THEN
               IF byte = 254
               THEN continue([ctx |-> [ctx EXCEPT !.state = RawRgb565Byte1], o |-> o])
               ELSE IF byte # 255
               THEN continue(streaming_fill(ctx, B, BitAnd(byte, 63) + 1, o))
               ELSE return(ctx, input_idx + 1, "end")
           ELSE IF op = 1 THEN
               LET r_diff == AsI8(BitAnd(Shr8(byte, 4), 3)) - 2
                   g_diff == AsI8(BitAnd(Shr8(byte, 2), 3)) - 2
                   b_diff == AsI8(BitAnd(byte, 3)) - 2
               IN continue(streaming_set_pixel(ctx, B,
                               apply_diff(ctx.prev, r_diff, g_diff, b_diff), o))
           ELSE IF op = 2 THEN
               continue([ctx |-> [ctx EXCEPT !.state = LumaOrDiffIndexedByte2(byte)],
                         o |-> o])
           ELSE return(ctx, input_idx + 1, "unreachable_op")
      [] ctx.state.tag = "LumaOrDiffIndexedByte2" ->
           LET byte1 == ctx.state.byte
               op == Shr8(byte1, 5)
           IN
           IF op = 4 THEN
               LET g_diff == AsI8(BitAnd(byte1, 31)) - 16
                   rg_diff == AsI8(Shr8(byte, 4)) - 8
                   bg_diff == AsI8(BitAnd(byte, 15)) - 8
                   r_diff == rg_diff + g_diff
                   b_diff == bg_diff + g_diff
               IN continue(streaming_emit(ctx, B,
                               apply_diff(ctx.prev, r_diff, g_diff, b_diff), o))
           ELSE IF op = 5 THEN
               LET g_diff == AsI8(Shr8(BitAnd(byte1, 28), 2)) - 4
                   r_diff == AsI8(BitAnd(byte1, 3)) - 2
                   b_diff == AsI8(Shr8(byte, 6)) - 2
                   index == BitAnd(byte, 63)
               IN continue(streaming_emit(ctx, B,
                               apply_diff(ctx.arr[index], r_diff, g_diff, b_diff), o))
           ELSE return(ctx, input_idx + 1, "unreachable")
      [] ctx.state.tag = "RawRgb565Byte1" ->
           continue([ctx |-> [ctx EXCEPT !.state = RawRgb565Byte2(byte)], o |-> o])
      [] ctx.state.tag = "RawRgb565Byte2" ->
           continue(streaming_emit(ctx, B, from_le_bytes(<<ctx.state.byte, byte>>), o))

\* streaming_decode_to_slice_unchecked that records END by resetting the context
M_streaming_decode_to_slice_unchecked(ctx, B, input, output) ==
    LET r == streaming_loop(ctx, input, 0, [output |-> output, output_idx |-> 0,
                                            touched |-> {}, oob |-> FALSE], B)
    IN IF r.how = "end" THEN [r EXCEPT !.ctx = Q565StreamingDecodeContext_new] ELSE r

streaming_decode_to_slice_unchecked(ctx, B, input, output) ==
    streaming_loop(ctx, input, 0,
                   [output |-> output, output_idx |-> 0, touched |-> {}, oob |-> FALSE], B)

\* chunk lengths the caller may pick when `left` bytes remain
ChunkLens(left) == {n \in 1..MaxChunk : n <= left} \cup {left}

\* one call on the next chunk of encoded[8..]; then the caller moves its
\* output slice on by the returned count, and stops at the end marker
StreamingCall ==
    /\ pc = "streaming"
    /\ LET body == SubSeq(w, 9, Len(w))
       IN \E n \in ChunkLens(Len(body) - sfed) :
            \E r \in {streaming_decode_to_slice_unchecked(
                         sctx, "LE", SubSeq(body, sfed + 1, sfed + n),
                         SubSeq(sbuf, sbase + 1, Len(sbuf)))} :
               /\ sctx' = r.ctx
               /\ sbuf' = SubSeq(sbuf, 1, sbase) \o r.output
               /\ sbase' = sbase + r.ret
               /\ sfed' = sfed + r.consumed
               /\ slast' = [len |-> n, consumed |-> r.consumed, ret |-> r.ret,
                            touched |-> r.touched, oob |-> r.oob, how |-> r.how,
                            base |-> sbase, from |-> sctx.state]
               /\ pc' = IF sfed + n = Len(body) \/ r.how = "end"
                        THEN "streaming_be" ELSE pc
    /\ UNCHANGED <<ivars, evars, e2vars, dvars, uvars, bvars, hres, vvars, qvars, alast, fno, aenc, nres>>

\* what follows the streaming decoders. The round trip of tests/roundtrip.rs,
\* which has encoded the image itself, ends here; the caller that was handed
\* the bytes goes on with the bytes after the end marker, if there are any,
\* and with decode_to_slice_unchecked.
after_streaming(body) ==
    IF eret = "true" THEN "done"
    ELSE IF slast.how = "end" /\ sfed < Len(body) THEN "streaming_after_end"
    ELSE "decode_to_slice_unchecked"

\* q565_streaming_decode_be: the streaming decoder with the big-endian byte
\* order, from a context of its own, handed all of encoded[8..] in one call
StreamingCallBE ==
    /\ pc = "streaming_be"
    /\ LET body == SubSeq(w, 9, Len(w))
       IN \E n \in {Len(body) - bfed} :
            \E r \in {streaming_decode_to_slice_unchecked(
                         bctx, "BE", SubSeq(body, bfed + 1, bfed + n),
                         SubSeq(bbuf, bbase + 1, Len(bbuf)))} :
               /\ bctx' = r.ctx
               /\ bbuf' = SubSeq(bbuf, 1, bbase) \o r.output
               /\ bbase' = bbase + r.ret
               /\ bfed' = bfed + n
               /\ pc' = IF bfed + n < Len(body) THEN pc ELSE after_streaming(body)
    /\ UNCHANGED <<ivars, evars, e2vars, dvars, uvars, svars, hres, vvars, qvars, alast, fno, aenc, nres>>

(***************************************************************************)
(* lib.rs: decode_to_slice_unchecked, the unchecked block decoder on a     *)
(* Q565Context of the caller.                                              *)
(***************************************************************************)
Q565Context_new == [prev |-> 0, arr |-> [i \in 0..63 |-> 0]]

\* a Q565Context that an earlier frame has left: the literal 0x8410 decoded
Q565Context_used ==
    [prev |-> 33808, arr |-> [i \in 0..63 |-> IF i = 20 THEN 33808 ELSE 0]]

\* set_pixel of decode_to_slice_unchecked
slice_set_pixel(state, B, pixel, o) ==
    [ctx |-> [state EXCEPT !.prev = pixel], o |-> write_pixel(o, B, pixel)]

\* the loop of decode_to_slice_unchecked, to its break at the end marker. It is
\* called on a valid image only, so every read is inside data.
RECURSIVE decode_to_slice_unchecked_loop(_, _, _, _, _)
decode_to_slice_unchecked_loop(state, data, input_idx, o, B) ==
    LET byte == data[input_idx + 1]
        op == Shr8(byte, 6)
        continue(r, n) == decode_to_slice_unchecked_loop(r.ctx, data, n, r.o, B)
        insert(pixel, n) ==
            continue(slice_set_pixel([state EXCEPT !.arr[hash(pixel)] = pixel], B, pixel, o),
                     n)
    IN
    IF op = 0 THEN continue(slice_set_pixel(state, B, state.arr[byte], o), input_idx + 1)
    ELSE IF op = 3 THEN
        IF byte = 254
        THEN insert(from_le_bytes(<<data[input_idx + 2], data[input_idx + 3]>>),
                    input_idx + 3)
        ELSE IF byte # 255
        THEN continue([ctx |-> state,
                       o |-> write_many_pixels(o, B, state.prev, BitAnd(byte, 63) + 1)],
                      input_idx + 1)
        ELSE [ctx |-> state, o |-> o]
    ELSE IF op = 1
    THEN continue(slice_set_pixel(state, B, direct_small_diff(state.prev, byte), o),
                  input_idx + 1)
    ELSE IF BitAnd(byte, 32) = 0
    THEN insert(direct_bigger_diff(state.prev, byte, data[input_idx + 2]), input_idx + 2)
    ELSE insert(indexed_diff(state.arr, byte, data[input_idx + 2]), input_idx + 2)

\* decode_to_slice_unchecked called with a fresh or a used context: the
\* context is reset, then the header is read and the slice measured
DecodeToSliceUnchecked ==
    /\ pc = "decode_to_slice_unchecked"
    /\ \E st \in {Q565Context_new, Q565Context_used} :
         LET wd == from_le_bytes(<<w[5], w[6]>>)
             ht == from_le_bytes(<<w[7], w[8]>>)
         IN /\ qin' = st
            /\ IF Len(qout.output) < wd * ht
               THEN /\ qctx' = Q565Context_new
                    /\ qret' = "OutputSliceTooSmall"
                    /\ UNCHANGED qout
               ELSE \E r \in {decode_to_slice_unchecked_loop(
                                 Q565Context_new, SubSeq(w, 9, Len(w)), 0, qout, "LE")} :
                       /\ qctx' = r.ctx
                       /\ qout' = r.o
                       /\ qret' = "Ok"
    /\ pc' = "done"
    /\ UNCHANGED <<ivars, evars, e2vars, dvars, uvars, svars, bvars, hres, vvars, alast, fno, aenc, nres>>

NoHash == [pixel |-> 0, h |-> 0, h_swapped |-> 0]

NoCall == [len |-> 0, consumed |-> 0, ret |-> 0, touched |-> {}, oob |-> FALSE,
           how |-> "none", base |-> 0, from |-> Default]

NoCallAfterEnd == [len |-> 0, consumed |-> 0, ret |-> 0, how |-> "none", oob |-> FALSE,
                   output |-> <<>>, ctx |-> Q565StreamingDecodeContext_new]

\* fresh contexts, empty outputs, and slices of n cells; all but the encoded bytes
Fresh(n) ==
    /\ enc = Q565EncodeContext_new
    /\ epos = 0
    /\ eret = "none"
    /\ elast = NoIter
    /\ enc2 = Q565EncodeContext_new
    /\ w2 = <<>>
    /\ eret2 = "none"
    /\ dec = Q565DecodeContext_new
    /\ din = 0
    /\ dout = UnsafeSliceDecodeOutput_new(n)
    /\ dret = "none"
    /\ dhdr = <<0, 0>>
    /\ udec = Q565DecodeContext_new
    /\ uin = 0
    /\ uout = UnsafeSliceDecodeOutput_new(n)
    /\ uret = "none"
    /\ uhdr = <<0, 0>>
    /\ sctx = Q565StreamingDecodeContext_new
    /\ sfed = 0
    /\ sbuf = [i \in 1..n |-> <<0, 0>>]
    /\ sbase = 0
    /\ slast = NoCall
    /\ bctx = Q565StreamingDecodeContext_new
    /\ bfed = 0
    /\ bbuf = [i \in 1..n |-> <<0, 0>>]
    /\ bbase = 0
    /\ hres = NoHash
    /\ vdec = Q565DecodeContext_new
    /\ vin = 0
    /\ vout = <<>>
    /\ vret = "none"
    /\ vhdr = <<0, 0>>
    /\ qin = Q565Context_new
    /\ qctx = Q565Context_new
    /\ qout = UnsafeSliceDecodeOutput_new(n)
    /\ qret = "none"
    /\ alast = NoCallAfterEnd
    /\ aenc = NoEncode
    /\ nres = NoArith

Init ==
    /\ pc = "encode_to_vec"
    /\ fno = 0
    /\ pixels \in Images
    /\ \E d \in Dims(pixels) : width = d[1] /\ height = d[2]
    /\ Fresh(Len(pixels))
    /\ w = <<>>

Next ==
    \/ EncodeToVecStart
    \/ EncodeToVecPixel
    \/ EncodeToVecEnd
    \/ Encode
    \/ DecodeStart
    \/ DecodeOp
    \/ DecodeToVecStart
    \/ DecodeToVecOp
    \/ DecodeUncheckedStart
    \/ DecodeUncheckedOp
    \/ StreamingCall
    \/ StreamingCallBE

Spec == Init /\ [][Next]_vars

(***************************************************************************)
(* utils.rs: hash called on its own, on every u16.                         *)
(***************************************************************************)
\* u16::swap_bytes
swap_bytes(n) == (n % 256) * 256 + n \div 256

\* hash(pixel) and hash(pixel.swap_bytes())
HashCall ==
    /\ pc = "hash"
    /\ hres' = [pixel |-> pixels[1], h |-> hash(pixels[1]),
                h_swapped |-> hash(swap_bytes(pixels[1]))]
    /\ pc' = "done"
    /\ UNCHANGED <<ivars, evars, e2vars, dvars, uvars, svars, bvars, vvars, qvars, alast, fno, aenc, nres>>

InitHash ==
    /\ pc = "hash"
    /\ fno = 0
    /\ \E p \in 0..(2 ^ 16 - 1) : pixels = <<p>>
    /\ width = 1 /\ height = 1
    /\ Fresh(1)
    /\ w = <<>>

NextHash == HashCall

SpecHash == InitHash /\ [][NextHash]_vars

(***************************************************************************)
(* The decoders on input that no encoder has to have produced: every byte  *)
(* as the first byte of an opcode, streams that stop early or go on after  *)
(* the end marker, and headers that are short, wrong, or ask for more than *)
(* the output holds.                                                       *)
(***************************************************************************)
\* number of bytes that follow the opcode byte under test
MaxTail == 3

\* those bytes: 0x93, the first byte of a LUMA, and 0xFF, each an opcode byte
\* or a payload byte, as its place has it
TailBytes == {147, 255}
Tails == UNION {[1..m -> TailBytes] : m \in 0..MaxTail}

\* an RGB565 literal, so that PREV and one slot of the colour array are not 0
Literal == <<254, 16, 132>>

Bodies == {Literal \o <<b>> \o t : b \in 0..255, t \in Tails}

\* the number of pixels of the complete opcodes of a stream prefix
RECURSIVE PixelCount(_, _)
PixelCount(bs, i) ==
    IF i > Len(bs) THEN 0
    ELSE LET b == bs[i] IN
         IF b = 255 THEN 0
         ELSE IF b = 254 THEN (IF i + 2 <= Len(bs) THEN 1 + PixelCount(bs, i + 3) ELSE 0)
         ELSE IF b >= 192 THEN (b - 192) + 1 + PixelCount(bs, i + 1)
         ELSE IF b >= 128 THEN (IF i + 1 <= Len(bs) THEN 1 + PixelCount(bs, i + 2) ELSE 0)
         ELSE 1 + PixelCount(bs, i + 1)

header(magic, wd, ht) == magic \o to_le_bytes(wd) \o to_le_bytes(ht)

\* the inputs that try the header: "q565" and "q566"; sizes of one, two and
\* 258 pixels and of none (a zero width, a zero height); streams of no pixel,
\* of one and of three (a literal and a RUN of two), cut at every length; with
\* outputs around the sizes asked for
HeaderInputs ==
    LET Cut(bs) == {SubSeq(bs, 1, k) : k \in 0..Len(bs)}
        Whole == {header(m, d[1], d[2]) \o b :
                     m \in {<<113, 53, 54, 53>>, <<113, 53, 54, 54>>},
                     d \in {<<1, 1>>, <<2, 1>>, <<258, 1>>, <<0, 1>>, <<1, 0>>},
                     b \in {<<255>>, Literal \o <<255>>, Literal \o <<193, 255>>}}
    IN {[data |-> bs, cap |-> c] : bs \in UNION {Cut(x) : x \in Whole},
                                  c \in {0, 1, 2, 257, 258}}

\* every byte as each payload byte of an RGB565, as the second byte of a LUMA
\* and as the second byte of a DIFF_INDEXED, each followed by the end marker
PayloadBodies ==
    UNION {{<<254, b, 132, 255>>, <<254, 16, b, 255>>, <<147, b, 255>>, <<163, b, 255>>} :
              b \in 0..255}

\* the inputs that try the opcodes: a header of one pixel, and an output as
\* large as the stream needs
\* a DIFF_INDEXED that refers to slot 20, which the literal has filled, and
\* gives 0x8450, a pixel of the same slot; and the literal sent twice
SlotBodies == {Literal \o <<186, 148, 255>>, Literal \o Literal \o <<255>>}

OpcodeInputs ==
    {[data |-> header(<<113, 53, 54, 53>>, 1, 1) \o b, cap |-> PixelCount(b, 1)] :
        b \in Bodies \cup PayloadBodies \cup SlotBodies}

\* the context of the little-endian streaming decode, after the call that
\* returned at the end marker, handed the bytes that follow the marker in one
\* more call, with an output of its own; alast.ctx is the context afterwards
StreamingCallAfterEnd ==
    /\ pc = "streaming_after_end"
    /\ LET rest == SubSeq(w, 9 + sfed, Len(w))
       IN \E r \in {streaming_decode_to_slice_unchecked(
                        sctx, "LE", rest, [i \in 1..PixelCount(rest, 1) |-> <<0, 0>>])} :
             alast' = [len |-> Len(rest), consumed |-> r.consumed, ret |-> r.ret,
                       how |-> r.how, oob |-> r.oob, output |-> r.output, ctx |-> r.ctx]
    /\ pc' = "decode_to_slice_unchecked"
    /\ UNCHANGED <<ivars, evars, e2vars, dvars, uvars, svars, bvars, hres, vvars, qvars, fno, aenc, nres>>

InitBytes ==
    /\ pc = "decode"
    /\ fno = 0
    /\ pixels = <<>> /\ width = 0 /\ height = 0
    /\ \E in \in HeaderInputs \cup OpcodeInputs :
          /\ Fresh(in.cap)
          /\ w = in.data

NextBytes ==
    \/ DecodeStart
    \/ DecodeOp
    \/ DecodeToVecStart
    \/ DecodeToVecOp
    \/ DecodeUncheckedStart
    \/ DecodeUncheckedOp
    \/ StreamingCall
    \/ StreamingCallBE
    \/ StreamingCallAfterEnd
    \/ DecodeToSliceUnchecked

SpecBytes == InitBytes /\ [][NextBytes]_vars

(***************************************************************************)
(* A sequence of frames: encode_to_vec_with_state and decode_with_state    *)
(* called frame after frame, each on a context that the caller keeps.      *)
(***************************************************************************)
\* number of frames of a sequence
MaxFrames == 2

\* the colours of the frames: two literals of different slots and a pixel
\* that is within the DIFF_INDEXED range of the first
FramePixels == {33808, 31743, 35950}

\* a frame is one pixel or two
FrameImages == [1..1 -> FramePixels] \cup [1..2 -> FramePixels]

\* NextFrame handing the decoder a fresh context for every frame
M_NextFrame ==
    /\ pc = "next_frame" /\ fno < MaxFrames
    /\ fno' = fno + 1
    /\ pixels' \in FrameImages
    /\ width' = Len(pixels') /\ height' = 1
    /\ w' = <<>> /\ epos' = 0 /\ eret' = "none" /\ elast' = NoIter
    /\ din' = 0 /\ dret' = "none" /\ dhdr' = <<0, 0>>
    /\ dout' = UnsafeSliceDecodeOutput_new(Len(pixels'))
    /\ dec' = Q565DecodeContext_new
    /\ pc' = "encode_to_vec"
    /\ UNCHANGED <<enc, e2vars, uvars, svars, bvars, hres, vvars, qvars, alast, aenc, nres>>

\* the next frame: a new image, an empty Vec<u8> and a new output slice; the
\* two contexts are the ones the frame before has left
NextFrame ==
    /\ pc = "next_frame" /\ fno < MaxFrames
    /\ fno' = fno + 1
    /\ pixels' \in FrameImages
    /\ width' = Len(pixels') /\ height' = 1
    /\ w' = <<>> /\ epos' = 0 /\ eret' = "none" /\ elast' = NoIter
    /\ din' = 0 /\ dret' = "none" /\ dhdr' = <<0, 0>>
    /\ dout' = UnsafeSliceDecodeOutput_new(Len(pixels'))
    /\ pc' = "encode_to_vec"
    /\ UNCHANGED <<enc, dec, e2vars, uvars, svars, bvars, hres, vvars, qvars, alast, aenc, nres>>

InitFrames ==
    /\ pc = "encode_to_vec"
    /\ fno = 1
    /\ pixels \in FrameImages
    /\ width = Len(pixels) /\ height = 1
    /\ Fresh(Len(pixels))
    /\ w = <<>>

NextFrames ==
    \/ EncodeToVecStart
    \/ EncodeToVecPixel
    \/ EncodeToVecEnd
    \/ DecodeStart
    \/ DecodeOp
    \/ NextFrame

SpecFrames == InitFrames /\ [][NextFrames]_vars

(***************************************************************************)
(* Every context that holds a colour array: the encoder on sequences of    *)
(* frames, and the decoders on the inputs that no encoder has to have      *)
(* produced.                                                               *)
(***************************************************************************)
InitContexts == InitBytes \/ InitFrames

NextContexts ==
    \/ EncodeToVecStart
    \/ EncodeToVecPixel
    \/ EncodeToVecEnd
    \/ NextFrame
    \/ DecodeStart
    \/ DecodeOp
    \/ DecodeToVecStart
    \/ DecodeToVecOp
    \/ DecodeUncheckedStart
    \/ DecodeUncheckedOp
    \/ StreamingCall
    \/ StreamingCallBE
    \/ StreamingCallAfterEnd
    \/ DecodeToSliceUnchecked

SpecContexts == InitContexts /\ [][NextContexts]_vars

\* the longest stream, behind the header, of the inputs below
MaxBody == 5

\* the same on the shorter inputs, with the scheduling of a sequential
\* program: a call of the encoder or of a validating decoder that has begun
\* goes on with its next step
InitTermination ==
    \/ InitFrames
    \/ /\ pc = "decode"
       /\ fno = 0
       /\ pixels = <<>> /\ width = 0 /\ height = 0
       /\ \E in \in {i \in HeaderInputs \cup OpcodeInputs : Len(i.data) <= 8 + MaxBody} :
             /\ Fresh(in.cap)
             /\ w = in.data

SpecTermination ==
    /\ InitTermination /\ [][NextContexts]_vars
    /\ WF_vars(EncodeToVecStart) /\ WF_vars(EncodeToVecPixel) /\ WF_vars(EncodeToVecEnd)
    /\ WF_vars(DecodeStart) /\ WF_vars(DecodeOp)
    /\ WF_vars(DecodeToVecStart) /\ WF_vars(DecodeToVecOp)

(***************************************************************************)
(* Properties.                                                             *)
(***************************************************************************)
Body == SubSeq(w, 9, Len(w))
Returned(r) == r \notin {"none", "running"}
\* the pixels held by a slice, read as little-endian u16
PixelsLE(cells) == [i \in 1..Len(cells) |-> cells[i][1] + 256 * cells[i][2]]
ValidImage == width >= 1 /\ height >= 1 /\ width * height = Len(pixels)

\* C1: round trip. For every image with width, height >= 1 and width * height
\* pixels, encode_to_vec returns true, and the validating decoder, run on the
\* produced bytes with a little-endian sink, returns Ok with the header
\* {width, height} and the pixel count, and has written exactly the pixels.
C1_RoundTrip ==
    ValidImage =>
        /\ Returned(eret) => eret = "true"
        /\ Returned(dret) =>
              /\ dret = "Ok"
              /\ dhdr = <<width, height>>
              /\ current_output_position(dout) = width * height
              /\ ~dout.oob
              /\ PixelsLE(dout.output) = pixels

\* a decoded image of two RGB565 literals and a DIFF_INDEXED
C1_Witness ==
    /\ ValidImage /\ dret = "Ok"
    /\ pixels = <<33808, 31743, 35950>>

\* C2: chunk independence. Whatever the chunks of E[8..] handed to one fresh
\* streaming context, with the output moved on by each returned count, the
\* pixels written so far are a prefix of what the block decoder wrote for E,
\* and once all of E[8..] is fed they are all of it.
C2_ChunkIndependence ==
    slast.how # "none" =>
        /\ sbase <= Len(sbuf)
        /\ SubSeq(sbuf, 1, sbase) = SubSeq(dout.output, 1, sbase)
        /\ sfed = Len(Body) => (sbase = current_output_position(dout) /\ sbuf = dout.output)

\* the stream FE 10 84 FF fed as FE 10 | 84 FF: the last call starts inside
\* the three-byte opcode
C2_Witness ==
    /\ pixels = <<33808>> /\ sfed = Len(Body)
    /\ slast.len = 2 /\ slast.ret = 1 /\ slast.how = "end"
    /\ sbuf = dout.output

\* C3: decoder equivalence. On every encoder output the unchecked block
\* decoder and the validating block decoder, each from a fresh context with a
\* slice of width * height pixels, both succeed, write the same pixels and
\* return the same count.
C3_DecoderEquivalence ==
    (eret = "true" /\ Returned(uret)) =>
        /\ uret = "Ok" /\ dret = "Ok"
        /\ current_output_position(uout) = current_output_position(dout)
        /\ uout.output = dout.output
        /\ uhdr = dhdr

C3_Witness ==
    /\ uret = "Ok" /\ dret = "Ok"
    /\ pixels = <<33808, 31743, 35950>>
    /\ current_output_position(uout) = 3

\* C4: encoder equivalence. When width * height is the pixel count, encode
\* (header + encode_pixels) and encode_to_vec, each from a fresh context,
\* both succeed and produce the same bytes.
C4_EncoderEquivalence ==
    (width * height = Len(pixels) /\ Returned(eret2)) =>
        /\ eret = "true" /\ eret2 = "Ok"
        /\ w2 = w

C4_Witness ==
    /\ eret2 = "Ok" /\ w2 = w
    /\ pixels = <<33808, 31743, 35950>> /\ width = 3

\* C5: output contract of a streaming call. A call that returns r has written
\* exactly the positions 0..r-1 of its own output slice; r is the number of
\* pixels this call produced, and the returned values add up to the number of
\* pixels of the stream fed so far.
C5_StreamingOutputContract ==
    slast.how # "none" =>
        /\ slast.touched = 0..(slast.ret - 1)
        /\ ~slast.oob
        /\ slast.ret = PixelCount(SubSeq(Body, 1, sfed), 1)
                       - PixelCount(SubSeq(Body, 1, sfed - slast.len), 1)
        /\ sbase = PixelCount(SubSeq(Body, 1, sfed), 1)

\* a second call that produced several pixels, after a first that produced some
C5_Witness ==
    /\ slast.how # "none"
    /\ slast.base > 0 /\ slast.ret > 1
    /\ slast.touched = 0..(slast.ret - 1)

\* C6: encoder failure. When width * height is not the pixel count,
\* encode_to_vec returns false and encode returns InvalidDimensions; neither
\* writes a byte and neither changes its context.
C6_EncoderFailure ==
    width * height # Len(pixels) =>
        /\ Returned(eret) => (eret = "false" /\ w = <<>> /\ enc = Q565EncodeContext_new)
        /\ eret = "running" => FALSE
        /\ Returned(eret2) =>
              (eret2 = "InvalidDimensions" /\ w2 = <<>> /\ enc2 = Q565EncodeContext_new)

C6_Witness ==
    /\ width * height # Len(pixels) /\ Len(pixels) > 0
    /\ eret = "false" /\ eret2 = "InvalidDimensions"

\* the channels of a pixel and the N-bit signed difference, as the format
\* defines them
Channels(p) == <<p \div 2048, (p \div 32) % 64, p % 32>>
WrapDiff(a, b, N) == ((a - b + 2 ^ (N - 1)) % (2 ^ N)) - 2 ^ (N - 1)
ChannelDiffs(p, q) ==
    <<WrapDiff(Channels(p)[1], Channels(q)[1], 5),
      WrapDiff(Channels(p)[2], Channels(q)[2], 6),
      WrapDiff(Channels(p)[3], Channels(q)[3], 5)>>
SlotOf(p) == ((p % 256) + (p \div 256)) % 64
FitsDiff(p, q) ==
    LET d == ChannelDiffs(p, q) IN d[1] \in -2..1 /\ d[2] \in -2..1 /\ d[3] \in -2..1
FitsLuma(p, q) ==
    LET d == ChannelDiffs(p, q)
    IN d[2] \in -16..15 /\ (d[1] - d[2]) \in -8..7 /\ (d[3] - d[2]) \in -8..7
FitsDiffIndexed(p, q) ==
    LET d == ChannelDiffs(p, q) IN d[1] \in -2..1 /\ d[2] \in -4..3 /\ d[3] \in -2..1

\* the first opcode, in the order of priority, whose condition holds
FirstOpcode(PREV, CA, P) ==
    IF P = PREV THEN "RUN"
    ELSE IF CA[SlotOf(P)] = P THEN "INDEX"
    ELSE IF FitsDiff(P, PREV) THEN "DIFF"
    ELSE IF FitsLuma(P, PREV) THEN "LUMA"
    ELSE IF \E i \in 0..63 : FitsDiffIndexed(P, CA[i]) THEN "DIFF_INDEXED"
    ELSE "RGB565"

PixelOps == {"RUN", "INDEX", "DIFF", "LUMA", "DIFF_INDEXED", "RGB565"}

\* C7: opcode priority. For the state (PREV, CA) in which the encoder meets
\* pixel P, the opcode it emits is the first of RUN, INDEX, DIFF, LUMA,
\* DIFF_INDEXED, RGB565 whose condition holds.
C7_OpcodePriority ==
    elast.op \in PixelOps => elast.op = FirstOpcode(elast.prev, elast.arr, elast.pixel)

\* a DIFF_INDEXED: not a run, not in CA, too far from PREV for DIFF and LUMA
C7_Witness ==
    /\ elast.op = "DIFF_INDEXED"
    /\ elast.pixel # elast.prev
    /\ ~FitsLuma(elast.pixel, elast.prev)
    /\ \E i \in 1..63 : elast.arr[i] # 0 /\ FitsDiffIndexed(elast.pixel, elast.arr[i])

\* the bytes of a run of L pixels
RunChain(L) ==
    [i \in 1..(L \div 62) |-> 253]
    \o (IF L % 62 > 0 THEN <<192 + (L % 62) - 1>> ELSE <<>>)

\* C8: run chunking. A maximal run of L >= 1 pixels equal to PREV is encoded
\* as L div 62 bytes 0xFD and then, iff L mod 62 > 0, the byte
\* 0xC0 | (L mod 62 - 1), and nothing else; 125 zero pixels from a fresh
\* context give FD FD C0 and END.
C8_RunChunking ==
    /\ elast.op = "RUN" =>
          LET L == epos - elast.pos IN
          /\ L >= 1
          /\ \A i \in (elast.pos + 1)..epos : pixels[i] = elast.prev
          /\ epos < Len(pixels) => pixels[epos + 1] # elast.prev
          /\ elast.bytes = RunChain(L)
          /\ w = SubSeq(w, 1, Len(w) - Len(elast.bytes)) \o RunChain(L)
    /\ (eret = "true" /\ pixels = [i \in 1..125 |-> 0]) => Body = <<253, 253, 192, 255>>

\* a run of more than two full RUN bytes and a rest
C8_Witness ==
    /\ elast.op = "RUN"
    /\ epos - elast.pos > 2 * 62
    /\ (epos - elast.pos) % 62 > 0

\* C9: reserved RUN values. No RUN byte the encoder emits carries the field
\* 62 or 63; the first byte of an emitted opcode is 0xFE only for RGB565,
\* followed by the two bytes of the pixel, and 0xFF only for END.
C9_ReservedRunValues ==
    /\ elast.op = "RUN" =>
          \A i \in 1..Len(elast.bytes) :
              elast.bytes[i] \in 192..255 /\ (elast.bytes[i] - 192) \notin {62, 63}
    /\ elast.op # "none" =>
          /\ Len(elast.bytes) >= 1
          /\ elast.bytes[1] = 254 <=> elast.op = "RGB565"
          /\ elast.bytes[1] = 255 <=> elast.op = "END"
          /\ elast.op = "RGB565" =>
                elast.bytes = <<254, elast.pixel % 256, elast.pixel \div 256>>
          /\ w = SubSeq(w, 1, Len(w) - Len(elast.bytes)) \o elast.bytes

\* a run that fills RUN bytes to the last legal value
C9_Witness ==
    /\ elast.op = "RUN"
    /\ epos - elast.pos >= 62
    /\ elast.bytes[1] = 253

\* the indices of a stream at which an opcode starts
RECURSIVE Boundaries(_, _)
Boundaries(bs, i) ==
    IF i > Len(bs) THEN {}
    ELSE {i} \cup Boundaries(bs, i + (IF bs[i] = 254 THEN 3
                                      ELSE IF bs[i] \in 128..191 THEN 2 ELSE 1))

\* C10: every successful encoder output, read opcode by opcode after the
\* header, holds END exactly once, as its last byte.
C10_EndOnceAndLast ==
    eret = "true" =>
        /\ Len(w) >= 9
        /\ {i \in Boundaries(Body, 1) : Body[i] = 255} = {Len(Body)}

\* an output with 0xFF inside a payload
C10_Witness ==
    /\ eret = "true"
    /\ \E i \in 1..(Len(Body) - 1) : Body[i] = 255

\* the length of the opcode that starts with byte b
OpLen(b) == IF b = 254 THEN 3 ELSE IF b \in 128..191 THEN 2 ELSE 1

\* C11: the encoder output never holds two consecutive INDEX opcodes with the
\* same index, and every pixel equal to the pixel before it (for the first
\* pixel: to the initial PREV) is encoded by a RUN.
C11_NoRepeatedIndex ==
    /\ \A i \in Boundaries(Body, 1) :
          (Body[i] < 64 /\ i + 1 <= Len(Body) /\ Body[i + 1] < 64) => Body[i + 1] # Body[i]
    /\ (elast.op \in PixelOps /\ elast.op # "RUN") =>
          /\ elast.pixel # elast.prev
          /\ elast.pos >= 1 => pixels[elast.pos + 1] # pixels[elast.pos]
    /\ elast.op = "RUN" => elast.pixel = elast.prev

\* two INDEX opcodes in a row (to different slots), and a pixel seen before
\* that repeats: INDEX 58, INDEX 20, RUN
C11_Witness ==
    /\ eret = "true"
    /\ \E i \in Boundaries(Body, 1) : Body[i] < 64 /\ i + 1 <= Len(Body) /\ Body[i + 1] < 64

SwapBytes(n) == (n % 256) * 256 + n \div 256

\* C13: byte-order symmetry. Decoding a stream with the big-endian byte order
\* gives, position by position, the byte-swap of the u16 that decoding with
\* the little-endian order gives, and the same count; PREV and the colour
\* array of the two decoders are the same afterwards. The stream of [0xF81F]
\* decodes to [0x1FF8] with the big-endian order.
C13_ByteOrderSymmetry ==
    (bfed > 0 /\ bfed = Len(Body)) =>
        /\ sfed = Len(Body)
        /\ bbase = sbase
        /\ Len(bbuf) = Len(sbuf)
        /\ \A i \in 1..Len(bbuf) : bbuf[i] = <<sbuf[i][2], sbuf[i][1]>>
        /\ PixelsLE(bbuf) = [i \in 1..Len(sbuf) |-> SwapBytes(PixelsLE(sbuf)[i])]
        /\ bctx.prev = sctx.prev
        /\ bctx.arr = sctx.arr
        /\ pixels = <<63519>> => PixelsLE(bbuf) = <<8184>>

\* both decoders have decoded three pixels whose two bytes differ
C13_Witness ==
    /\ bfed > 0 /\ bfed = Len(Body)
    /\ pixels = <<33808, 31743, 35950>>
    /\ PixelsLE(sbuf) = pixels
    /\ PixelsLE(bbuf) = <<4228, 65403, 28300>>

\* C14: for every 16-bit pixel p, hash(p) is ((p mod 256) + (p div 256)) mod 64:
\* a value in 0..63, the same for p and for p with its bytes exchanged, and
\* not changed by the 8-bit wrapping of the sum of the bytes.
C14_Hash ==
    pc = "done" =>
        /\ hres.h = ((hres.pixel % 256) + (hres.pixel \div 256)) % 64
        /\ hres.h \in 0..63
        /\ hres.h_swapped = hres.h

\* a pixel whose bytes add up to more than 255, and differ
C14_Witness ==
    /\ pc = "done"
    /\ hres.pixel = 65278
    /\ hres.h = 60

\* C15: header validation of the validating decoders, in this order: an
\* input of fewer than 9 bytes gives UnexpectedEof, whatever its magic;
\* otherwise a magic other than "q565" gives InvalidMagic; otherwise the
\* decoder into a slice gives OutputTooSmall when the slice holds fewer than
\* width * height cells; decode_to_vec never gives OutputTooSmall. Width and
\* height are the little-endian u16 at bytes 4..5 and 6..7.
C15_HeaderValidation ==
    LET W == w[5] + 256 * w[6]
        H == w[7] + 256 * w[8]
        BadMagic == <<w[1], w[2], w[3], w[4]>> # <<113, 53, 54, 53>>
    IN
    /\ Returned(dret) =>
          IF Len(w) < 9 THEN dret = "UnexpectedEof"
          ELSE IF BadMagic THEN dret = "InvalidMagic"
          ELSE IF max_len(dout) < W * H THEN dret = "OutputTooSmall"
          ELSE /\ dret \in {"Ok", "UnexpectedEof"}
               /\ dret = "Ok" => dhdr = <<W, H>>
    /\ Returned(vret) =>
          IF Len(w) < 9 THEN vret = "UnexpectedEof"
          ELSE IF BadMagic THEN vret = "InvalidMagic"
          ELSE /\ vret \in {"Ok", "UnexpectedEof"}
               /\ vret = "Ok" => vhdr = <<W, H>>

\* a header of 258 x 1 and a slice of 257 cells: the slice decoder refuses,
\* decode_to_vec decodes
C15_Witness ==
    /\ dret = "OutputTooSmall" /\ max_len(dout) = 257
    /\ vret = "Ok" /\ vhdr = <<258, 1>>

\* the index of the first END that stands where an opcode starts, all opcodes
\* before it being whole; 0 when the stream has none
RECURSIVE EndAt(_, _)
EndAt(bs, i) ==
    IF i > Len(bs) THEN 0
    ELSE IF bs[i] = 255 THEN i
    ELSE EndAt(bs, i + OpLen(bs[i]))

\* C16: on an input with a valid header and an output that is large enough,
\* the validating decoders return Ok iff an END is read where an opcode
\* starts before the input is exhausted, and UnexpectedEof otherwise, also
\* when the input stops inside a LUMA, DIFF_INDEXED or RGB565 opcode; the
\* bytes after END are not read and change nothing.
C16_OkIffEnd ==
    LET ValidHeader == Len(w) >= 9 /\ SubSeq(w, 1, 4) = <<113, 53, 54, 53>>
        LargeEnough == max_len(dout) >= (w[5] + 256 * w[6]) * (w[7] + 256 * w[8])
        e == EndAt(Body, 1)
    IN
    /\ (ValidHeader /\ LargeEnough /\ Returned(dret)) =>
          /\ dret = (IF e > 0 THEN "Ok" ELSE "UnexpectedEof")
          /\ e > 0 => /\ din = e
                      /\ current_output_position(dout) = PixelCount(SubSeq(Body, 1, e), 1)
                      /\ max_len(dout) >= PixelCount(SubSeq(Body, 1, e), 1) => ~dout.oob
    /\ (ValidHeader /\ Returned(vret)) =>
          /\ vret = (IF e > 0 THEN "Ok" ELSE "UnexpectedEof")
          /\ e > 0 => /\ vin = e
                      /\ Len(vout) = PixelCount(SubSeq(Body, 1, e), 1)

\* an input that stops after one of the two payload bytes of an RGB565
C16_Witness ==
    /\ Body = Literal \o <<254, 147>>
    /\ dret = "UnexpectedEof" /\ vret = "UnexpectedEof"
    /\ current_output_position(dout) = 1

\* a pixel of the three channels, each taken modulo its width
FromChannels(r, g, b) == (r % 32) * 2048 + (g % 64) * 32 + (b % 32)
AddDiff(p, dr, dg, db) ==
    FromChannels(Channels(p)[1] + dr, Channels(p)[2] + dg, Channels(p)[3] + db)

\* what the format says of the opcode that starts at bs[i], met with PREV and
\* the colour array CA: its name, its length in bytes, the number of pixels
\* and the pixel. b2 and b3 are the next two bytes, 0 where the stream ends.
Dispatch(PREV, CA, bs, i) ==
    LET b == bs[i]
        b2 == IF i + 1 <= Len(bs) THEN bs[i + 1] ELSE 0
        b3 == IF i + 2 <= Len(bs) THEN bs[i + 2] ELSE 0
        op(k, n, c, p) == [kind |-> k, len |-> n, count |-> c, pixel |-> p]
    IN
    IF b \in 0..63 THEN op("INDEX", 1, 1, CA[b])
    ELSE IF b \in 64..127
    THEN op("DIFF", 1, 1, AddDiff(PREV, ((b \div 16) % 4) - 2, ((b \div 4) % 4) - 2,
                                       (b % 4) - 2))
    ELSE IF b \in 128..159
    THEN LET dg == (b % 32) - 16
         IN op("LUMA", 2, 1, AddDiff(PREV, (b2 \div 16) - 8 + dg, dg, (b2 % 16) - 8 + dg))
    ELSE IF b \in 160..191
    THEN op("DIFF_INDEXED", 2, 1,
            AddDiff(CA[b2 % 64], (b % 4) - 2, ((b \div 4) % 8) - 4, (b2 \div 64) - 2))
    ELSE IF b \in 192..253 THEN op("RUN", 1, (b % 64) + 1, PREV)
    ELSE IF b = 254 THEN op("RGB565", 3, 1, b2 + 256 * b3)
    ELSE op("END", 1, 0, PREV)

\* a step of a block decoder that has read idx bytes and written n pixels,
\* to idx2 bytes and the cells out2, follows Dispatch
Dispatched(PREV, CA, idx, n, idx2, out2, n2, PREV2, ret2) ==
    IF idx >= Len(Body) THEN ret2 = "UnexpectedEof"
    ELSE LET e == Dispatch(PREV, CA, Body, idx + 1) IN
         IF idx + e.len > Len(Body) THEN ret2 = "UnexpectedEof"
         ELSE IF e.kind = "END" THEN ret2 = "Ok" /\ idx2 = idx + 1 /\ n2 = n
         ELSE /\ ret2 = "running"
              /\ idx2 = idx + e.len
              /\ e.count \in 1..62
              /\ n2 = n + e.count
              /\ \A k \in (n + 1)..n2 :
                    k <= Len(out2) => out2[k] = <<e.pixel % 256, e.pixel \div 256>>
              /\ PREV2 = e.pixel

\* C17: opcode dispatch. In every decoder the first byte of an opcode decides
\* it: 0x00-0x3F INDEX, 0x40-0x7F DIFF, 0x80-0x9F LUMA with one more byte,
\* 0xA0-0xBF DIFF_INDEXED with one more byte, 0xC0-0xFD RUN of
\* (byte & 0x3F) + 1 copies of PREV, 0xFE RGB565 with two more little-endian
\* bytes, 0xFF END. Each step of the three block decoders follows this, and
\* the streaming decoder, fed the same stream, ends with the same output and
\* the same PREV and colour array.
C17_Dispatch ==
    [][/\ (pc = "decode" /\ dret = "running") =>
             Dispatched(dec.prev, dec.arr, din, current_output_position(dout), din',
                        dout'.output, current_output_position(dout'), dec'.prev, dret')
       /\ (pc = "decode_to_vec" /\ vret = "running") =>
             Dispatched(vdec.prev, vdec.arr, vin, Len(vout), vin', vout', Len(vout'),
                        vdec'.prev, vret')
       /\ (pc = "decode_unchecked" /\ uret = "running") =>
             Dispatched(udec.prev, udec.arr, uin, current_output_position(uout), uin',
                        uout'.output, current_output_position(uout'), udec'.prev, uret')
       /\ (pc = "streaming" /\ pc' = "streaming_be") =>
             /\ sbuf' = dout.output
             /\ sbase' = current_output_position(dout)
             /\ sctx'.prev = dec.prev /\ sctx'.arr = dec.arr
             /\ sctx'.state = Default
      ]_vars

\* the slice decoder has taken 0xFD, after the literal, for a RUN of 62
C17_Witness ==
    /\ Len(Body) >= 4 /\ Body[4] = 253
    /\ dret = "running" /\ din = 4
    /\ current_output_position(dout) = 63
    /\ \A k \in 1..63 : dout.output[k] = <<16, 132>>

\* the header of a stream: "q565", width and height
Q565Header(wd, ht) == <<113, 53, 54, 53, wd % 256, wd \div 256, ht % 256, ht \div 256>>

S1 == pixels = <<0, 0>> /\ width = 2 /\ height = 1
S2 == pixels = <<63519>> /\ width = 1 /\ height = 1
S3 == pixels = <<33>> /\ width = 1 /\ height = 1

\* C18 as claimed: the two black pixels of S1 are encoded as
\* "q565" 02 00 01 00 C0 FF, which decodes to them.
C18_Claimed ==
    S1 =>
        /\ eret = "true" => w = Q565Header(2, 1) \o <<192, 255>>
        /\ Returned(dret) => (dret = "Ok" /\ PixelsLE(dout.output) = <<0, 0>>)

\* C18: scenario S1. Encoding width 2, height 1, pixels [0x0000, 0x0000] from
\* a fresh context gives exactly the 10 bytes "q565" 02 00 01 00 C1 FF, a RUN
\* of two and END, and decoding them gives the input.
C18_S1 ==
    S1 =>
        /\ eret = "true" => (w = Q565Header(2, 1) \o <<193, 255>> /\ Len(w) = 10)
        /\ Returned(dret) => (dret = "Ok" /\ PixelsLE(dout.output) = <<0, 0>>)
        /\ Returned(vret) => (vret = "Ok" /\ PixelsLE(vout) = <<0, 0>>)

C18_Witness ==
    /\ S1 /\ dret = "Ok" /\ vret = "Ok"
    /\ elast.op = "END" /\ Body = <<193, 255>>

\* C19 as claimed: the magenta pixel of S2 is encoded as an RGB565 literal,
\* "q565" 01 00 01 00 FE 1F F8 FF, which decodes to it.
C19_Claimed ==
    S2 =>
        /\ eret = "true" => w = Q565Header(1, 1) \o <<254, 31, 248, 255>>
        /\ Returned(dret) => (dret = "Ok" /\ PixelsLE(dout.output) = <<63519>>)

\* C19: scenario S2. Encoding width 1, height 1, pixels [0xF81F] from a fresh
\* context gives "q565" 01 00 01 00 59 FF: a DIFF of (-1, 0, -1), red and blue
\* wrapping below 0, followed by END; decoding gives [0xF81F].
C19_S2 ==
    S2 =>
        /\ eret = "true" => w = Q565Header(1, 1) \o <<89, 255>>
        /\ Returned(dret) => (dret = "Ok" /\ PixelsLE(dout.output) = <<63519>>)
        /\ Returned(vret) => (vret = "Ok" /\ PixelsLE(vout) = <<63519>>)

C19_Witness ==
    /\ S2 /\ dret = "Ok" /\ vret = "Ok"
    /\ PixelsLE(dout.output) = <<63519>> /\ Body[1] = 89

\* C20 as claimed: the pixel of S3 is encoded as the DIFF byte 0x4A and END,
\* "q565" 01 00 01 00 4A FF, which decodes to it.
C20_Claimed ==
    S3 =>
        /\ eret = "true" => w = Q565Header(1, 1) \o <<74, 255>>
        /\ Returned(dret) => (dret = "Ok" /\ PixelsLE(dout.output) = <<33>>)

\* C20: scenario S3. Encoding width 1, height 1, pixels [0x0021] from a fresh
\* context gives "q565" 01 00 01 00 6F FF: a single DIFF byte, of (0, +1, +1),
\* followed by END, and the decoder reproduces [0x0021] from it.
C20_S3 ==
    S3 =>
        /\ eret = "true" => w = Q565Header(1, 1) \o <<111, 255>>
        /\ (Returned(eret) /\ elast.op # "none") => elast.op \in {"DIFF", "END"}
        /\ Returned(dret) => (dret = "Ok" /\ PixelsLE(dout.output) = <<33>>)
        /\ Returned(vret) => (vret = "Ok" /\ PixelsLE(vout) = <<33>>)

C20_Witness ==
    /\ S3 /\ dret = "Ok" /\ vret = "Ok"
    /\ PixelsLE(vout) = <<33>> /\ Body = <<111, 255>>

\* the width and height fields of a header, bytes 4..8 of the output
HeaderWidth(bs) == bs[5] + 256 * bs[6]
HeaderHeight(bs) == bs[7] + 256 * bs[8]

\* C21 as claimed: every call of encode_to_vec or encode that returns success
\* has written a header whose width and height are both in 1..65535.
C21_Claimed ==
    /\ eret = "true" => (HeaderWidth(w) \in 1..65535 /\ HeaderHeight(w) \in 1..65535)
    /\ eret2 = "Ok" => (HeaderWidth(w2) \in 1..65535 /\ HeaderHeight(w2) \in 1..65535)

\* the input starts with a whole header whose magic is "q565"
ValidHeaderOf(bs) == Len(bs) >= 9 /\ SubSeq(bs, 1, 4) = <<113, 53, 54, 53>>

\* C22 as claimed: on every input whose header declares a width or a height
\* of 0, no block decoder reports OutputTooSmall, and each returns a pixel
\* count of 0 and has produced no pixel.
C22_Claimed ==
    (ValidHeaderOf(w) /\ (HeaderWidth(w) = 0 \/ HeaderHeight(w) = 0)) =>
        /\ dret # "OutputTooSmall" /\ vret # "OutputTooSmall" /\ uret # "OutputTooSmall"
        /\ dret = "Ok" => current_output_position(dout) = 0
        /\ vret = "Ok" => Len(vout) = 0
        /\ uret = "Ok" => current_output_position(uout) = 0

\* a slice that no decoder has written to
Untouched(sink) ==
    /\ current_output_position(sink) = 0
    /\ \A i \in 1..Len(sink.output) : sink.output[i] = <<0, 0>>

\* C23 as claimed: the unchecked block decoder returns OutputTooSmall iff the
\* slice holds fewer than width * height cells, and then it has written no
\* pixel and PREV and CA are what the caller handed in; otherwise it decodes
\* until END.
C23_Claimed ==
    LET Small(sink) == max_len(sink) < HeaderWidth(w) * HeaderHeight(w)
        e == EndAt(Body, 1)
    IN
    /\ Returned(uret) =>
          /\ uret = "OutputTooSmall" <=> Small(uout)
          /\ uret = "OutputTooSmall" => (Untouched(uout) /\ udec = Q565DecodeContext_new)
          /\ uret # "OutputTooSmall" => (uret = "Ok" /\ uin = e)
    /\ Returned(qret) =>
          /\ qret = "OutputSliceTooSmall" <=> Small(qout)
          /\ qret = "OutputSliceTooSmall" => (Untouched(qout) /\ qctx = qin)
          /\ qret # "OutputSliceTooSmall" => qret = "Ok"

\* C23: the unchecked block decoder returns OutputTooSmall iff the slice holds
\* fewer than width * height cells, as read from the header, and then it has
\* written no pixel. decode_unchecked_with_state has then not modified PREV
\* or CA; decode_to_slice_unchecked, which resets the context it is handed
\* before it reads the header, leaves PREV = 0 and CA all zero, whatever they
\* were. Otherwise the decoder decodes until END.
C23_UncheckedOutputTooSmall ==
    LET Small(sink) == max_len(sink) < HeaderWidth(w) * HeaderHeight(w)
        e == EndAt(Body, 1)
        n == PixelCount(SubSeq(Body, 1, e), 1)
    IN
    /\ Returned(uret) =>
          /\ uret = "OutputTooSmall" <=> Small(uout)
          /\ uret = "OutputTooSmall" => (Untouched(uout) /\ udec = Q565DecodeContext_new)
          /\ uret # "OutputTooSmall" =>
                (uret = "Ok" /\ e > 0 /\ uin = e /\ current_output_position(uout) = n)
    /\ Returned(qret) =>
          /\ qret = "OutputSliceTooSmall" <=> Small(qout)
          /\ qret = "OutputSliceTooSmall" => (Untouched(qout) /\ qctx = Q565Context_new)
          /\ qret # "OutputSliceTooSmall" =>
                /\ qret = "Ok" /\ e > 0
                /\ current_output_position(qout) = n
                /\ qout.output = uout.output
                /\ qctx.prev = udec.prev /\ qctx.arr = udec.arr

\* a header of 258 x 1 and slices of 257 cells: both unchecked decoders
\* refuse, the second after resetting a context that an earlier frame had used
C23_Witness ==
    /\ uret = "OutputTooSmall" /\ qret = "OutputSliceTooSmall"
    /\ HeaderWidth(w) = 258 /\ max_len(uout) = 257
    /\ qin = Q565Context_used /\ qctx = Q565Context_new

\* a pixel as the streaming decoder stores it in a little-endian slice
CellLE(p) == <<p % 256, p \div 256>>

\* what the format says of a stream read from bs[i] on, starting with PREV,
\* the colour array CA and the pixels out: PREV, CA and the pixels after all
\* the whole opcodes up to the first END, or up to the opcode that bs cuts
\* off; at is the index where that opcode starts, or the index behind END
RECURSIVE Ref(_, _, _, _, _)
Ref(PREV, CA, out, bs, i) ==
    IF i > Len(bs) THEN [prev |-> PREV, arr |-> CA, out |-> out, at |-> i, end |-> FALSE]
    ELSE LET e == Dispatch(PREV, CA, bs, i) IN
         IF e.kind = "END"
         THEN [prev |-> PREV, arr |-> CA, out |-> out, at |-> i + 1, end |-> TRUE]
         ELSE IF i + e.len - 1 > Len(bs)
         THEN [prev |-> PREV, arr |-> CA, out |-> out, at |-> i, end |-> FALSE]
         ELSE Ref(e.pixel,
                  IF e.kind \in {"LUMA", "DIFF_INDEXED", "RGB565"}
                  THEN [CA EXCEPT ![SlotOf(e.pixel)] = e.pixel] ELSE CA,
                  out \o [k \in 1..e.count |-> e.pixel], bs, i + e.len)

RefFresh(bs) == Ref(0, [i \in 0..63 |-> 0], <<>>, bs, 1)

\* the state tag after the bytes of bs: Default behind a whole opcode, and
\* inside an opcode that starts at index at, the tag of the bytes seen of it
PendingTag(bs, at) ==
    IF at > Len(bs) THEN [tag |-> "Default", byte |-> 0]
    ELSE IF bs[at] = 254
    THEN (IF Len(bs) = at THEN [tag |-> "RawRgb565Byte1", byte |-> 0]
          ELSE [tag |-> "RawRgb565Byte2", byte |-> bs[at + 1]])
    ELSE [tag |-> "LumaOrDiffIndexedByte2", byte |-> bs[at]]

\* C24: streaming resumability. When the input of a call ends after the first
\* byte of a LUMA or DIFF_INDEXED or after one or two bytes of an RGB565, the
\* call returns the pixels of the whole opcodes alone, PREV and CA are those
\* after the last whole opcode, and the state tag holds the position and the
\* pending byte; the call that brings the rest of the opcode emits the pixel
\* that the opcode gives when it is read in one piece.
C24_StreamingResumable ==
    slast.how # "none" =>
        LET fed == SubSeq(Body, 1, sfed)
            R == RefFresh(fed)
        IN /\ sctx.state = (IF R.end THEN [tag |-> "Default", byte |-> 0]
                            ELSE PendingTag(fed, R.at))
           /\ sctx.prev = R.prev
           /\ sctx.arr = R.arr
           /\ sbase = Len(R.out)
           /\ sbase <= Len(sbuf)
           /\ \A k \in 1..sbase : sbuf[k] = CellLE(R.out[k])
           /\ slast.ret = sbase - slast.base
           /\ slast.how = "input" => slast.consumed = slast.len

\* a call that started behind the two bytes FE 10 of a literal, completed it
\* with its first byte and emitted 0x8410
C24_Witness ==
    /\ slast.from = [tag |-> "RawRgb565Byte2", byte |-> 16]
    /\ slast.ret >= 1
    /\ sbuf[slast.base + 1] = <<16, 132>>
    /\ sctx.prev = 33808 /\ sctx.arr[20] = 33808
    /\ sctx.state.tag = "Default"

\* the state tags, as the format names them
TagDefault == [tag |-> "Default", byte |-> 0]
TagLumaOrDiffIndexedByte2(b) == [tag |-> "LumaOrDiffIndexedByte2", byte |-> b]
TagRawRgb565Byte1 == [tag |-> "RawRgb565Byte1", byte |-> 0]
TagRawRgb565Byte2(b) == [tag |-> "RawRgb565Byte2", byte |-> b]

\* the last streaming call was handed one byte and consumed it
OneByteCall == slast.how # "none" /\ slast.len = 1 /\ slast.consumed = 1

\* C25: the transitions of the streaming decoder, seen in the calls that are
\* handed a single byte. From Default a byte 0x80-0xBF leads to
\* LumaOrDiffIndexedByte2(byte) and 0xFE to RawRgb565Byte1, without a pixel,
\* and every INDEX, DIFF and RUN byte stays in Default; from RawRgb565Byte1
\* a byte b leads to RawRgb565Byte2(b) without a pixel; from
\* LumaOrDiffIndexedByte2 and RawRgb565Byte2 every byte emits exactly one
\* pixel, stores it in CA at its hash, sets PREV and leads back to Default.
\* There is no other transition.
C25_StreamingTransitions ==
    OneByteCall =>
        LET b == Body[sfed]
            from == slast.from
            p == sbuf[sbase][1] + 256 * sbuf[sbase][2]
            OnePixel == /\ slast.ret = 1
                        /\ sctx.prev = p
                        /\ sctx.arr[SlotOf(p)] = p
                        /\ sctx.state = TagDefault
        IN /\ from.tag \in {"Default", "LumaOrDiffIndexedByte2", "RawRgb565Byte1",
                            "RawRgb565Byte2"}
           /\ from.tag = "Default" =>
                 /\ b \in 128..191 => (sctx.state = TagLumaOrDiffIndexedByte2(b)
                                       /\ slast.ret = 0)
                 /\ b = 254 => (sctx.state = TagRawRgb565Byte1 /\ slast.ret = 0)
                 /\ b \in 0..127 => (sctx.state = TagDefault /\ slast.ret = 1)
                 /\ b \in 192..253 => (sctx.state = TagDefault /\ slast.ret = (b - 192) + 1)
                 /\ b = 255 => (sctx.state = TagDefault /\ slast.ret = 0)
           /\ from.tag = "RawRgb565Byte1" =>
                 (sctx.state = TagRawRgb565Byte2(b) /\ slast.ret = 0)
           /\ from.tag = "LumaOrDiffIndexedByte2" =>
                 (from.byte \in 128..191 /\ OnePixel)
           /\ from.tag = "RawRgb565Byte2" =>
                 (OnePixel /\ p = from.byte + 256 * b)

\* the byte 0x93 handed alone to a context in RawRgb565Byte1: it is kept as
\* the pending byte, and no pixel is emitted
C25_Witness ==
    /\ OneByteCall
    /\ slast.from = TagRawRgb565Byte1
    /\ Body[sfed] = 147
    /\ sctx.state = TagRawRgb565Byte2(147)
    /\ slast.ret = 0

\* C26: in the streaming decoder 0xFF ends the stream and 0xFE starts an RGB565
\* only when they are consumed in state Default, that is where an opcode
\* starts. Consumed in LumaOrDiffIndexedByte2, RawRgb565Byte1 or
\* RawRgb565Byte2 they are payload, also as the first byte of a chunk:
\* FE FF FF gives the pixel 0xFFFF, and decoding goes on.
C26_PayloadNotOpcode ==
    slast.how # "none" =>
        LET first == Body[sfed - slast.consumed + 1]
            from == slast.from
        IN \* a call returns at 0xFF exactly where the format has END
           /\ sfed <= EndAt(Body, 1)
           /\ slast.how = "end" <=> sfed = EndAt(Body, 1)
           /\ (from.tag # "Default" /\ first \in {254, 255}) =>
                 /\ ~(slast.how = "end" /\ slast.consumed = 1)
                 /\ from.tag = "RawRgb565Byte1" =>
                       /\ slast.len = 1 => (sctx.state = TagRawRgb565Byte2(first)
                                            /\ slast.ret = 0)
                       /\ slast.len > 1 => sbuf[slast.base + 1][1] = first
                 /\ from.tag = "RawRgb565Byte2" =>
                       /\ slast.ret >= 1
                       /\ sbuf[slast.base + 1] = <<from.byte, first>>
                 /\ from.tag = "LumaOrDiffIndexedByte2" =>
                       /\ slast.ret >= 1
                       /\ sbuf[slast.base + 1] =
                             CellLE(RefFresh(SubSeq(Body, 1, sfed - slast.consumed + 1))
                                        .out[slast.base + 1])
           /\ (from.tag = "Default" /\ slast.len = 1) =>
                 /\ first = 254 => sctx.state = TagRawRgb565Byte1
                 /\ first = 255 => slast.how = "end"
           /\ (Len(Body) >= 7 /\ SubSeq(Body, 4, 6) = <<254, 255, 255>> /\ sfed >= 6) =>
                 /\ sbase >= 2
                 /\ sbuf[2] = <<255, 255>>
                 /\ sfed = 6 => (slast.how = "input" /\ sctx.state = TagDefault)

\* FE FF FF with the last FF alone in a chunk: it completes the pixel 0xFFFF,
\* and the call returns for lack of input, not for END
C26_Witness ==
    /\ slast.how = "input" /\ slast.len = 1
    /\ slast.from = TagRawRgb565Byte2(255)
    /\ Body[sfed] = 255
    /\ slast.ret = 1
    /\ sbuf[sbase] = <<255, 255>>
    /\ sfed < EndAt(Body, 1)

\* C27: END in the streaming decoder. The call that consumes END returns at
\* once with the number of pixels of this call, leaves the bytes behind END
\* unconsumed, and leaves the state tag Default and PREV and CA as they were
\* before the END byte. END is not recorded: a later call on the context
\* decodes its bytes as ordinary opcodes, from that PREV and CA.
C27_StreamingEnd ==
    /\ slast.how = "end" =>
          LET R == RefFresh(SubSeq(Body, 1, sfed - 1))
          IN /\ Body[sfed] = 255
             /\ slast.consumed <= slast.len
             /\ ~R.end /\ R.at = sfed
             /\ sbase = Len(R.out)
             /\ slast.ret = Len(R.out) - slast.base
             /\ sctx.state = TagDefault
             /\ sctx.prev = R.prev
             /\ sctx.arr = R.arr
    /\ alast.how # "none" =>
          LET rest == SubSeq(Body, sfed + 1, Len(Body))
              R2 == Ref(sctx.prev, sctx.arr, <<>>, rest, 1)
          IN /\ slast.how = "end"
             /\ alast.len = Len(rest)
             /\ alast.how = (IF R2.end THEN "end" ELSE "input")
             /\ alast.consumed = (IF R2.end THEN R2.at - 1 ELSE Len(rest))
             /\ alast.ret = Len(R2.out)
             /\ ~alast.oob
             /\ \A k \in 1..Len(R2.out) : alast.output[k] = CellLE(R2.out[k])
             /\ alast.ctx.prev = R2.prev
             /\ alast.ctx.arr = R2.arr
             /\ alast.ctx.state = (IF R2.end THEN TagDefault ELSE PendingTag(rest, R2.at))

\* END as the first byte of a chunk of two: the byte behind it is left, and the
\* later call decodes the LUMA 93 93 that follows END, from the PREV that the
\* literal before END has set
C27_Witness ==
    /\ slast.how = "end" /\ slast.len = 2 /\ slast.consumed = 1 /\ slast.ret = 0
    /\ sctx.prev = 33808
    /\ SubSeq(Body, sfed + 1, Len(Body)) = <<147, 147>>
    /\ alast.how = "input" /\ alast.ret = 1
    /\ alast.ctx.prev # 33808

\* the slice handed to decode has passed the check against width * height
PassedCapacityCheck ==
    /\ ValidHeaderOf(w)
    /\ dret \in {"running", "Ok", "UnexpectedEof"}
    /\ max_len(dout) >= HeaderWidth(w) * HeaderHeight(w)

\* C28 as claimed: once the slice of capacity C has passed the check against
\* width * height, the position of the sink never exceeds C and no pixel is
\* written at an index >= C, whatever the input, also when the stream encodes
\* more pixels than the header declares.
C28_Claimed ==
    PassedCapacityCheck =>
        /\ current_output_position(dout) <= max_len(dout)
        /\ ~dout.oob

\* C29 as claimed: when a stream with a valid header reaches END after fewer
\* than width * height pixels, the validating decoders fail with MissingData.
C29_Claimed ==
    LET e == EndAt(Body, 1)
        Short == /\ ValidHeaderOf(w) /\ e > 0
                 /\ PixelCount(SubSeq(Body, 1, e), 1) < HeaderWidth(w) * HeaderHeight(w)
    IN /\ (Short /\ Returned(dret) /\ dret # "OutputTooSmall") => dret = "MissingData"
       /\ (Short /\ Returned(vret)) => vret = "MissingData"

\* the pixel in cell n of a little-endian slice, and 0 for no cell at all
LastPixelLE(cells, n) == IF n = 0 THEN 0 ELSE cells[n][1] + 256 * cells[n][2]
LastPixelBE(cells, n) == IF n = 0 THEN 0 ELSE cells[n][1] * 256 + cells[n][2]

\* the byte at which a block decoder that has read idx bytes stands is a RUN
AtRun(idx) == idx < Len(Body) /\ Body[idx + 1] \in 192..253

\* C30: PREV tracks the last pixel. In the encoder, after each input pixel,
\* and in every decoder, after each opcode that produces pixels, PREV is the
\* pixel consumed or emitted last; a RUN leaves PREV as it is, the repeated
\* pixel being PREV already; and PREV is 0 in a fresh context.
C30_PrevTracksLastPixel ==
    /\ [](/\ eret \in {"running", "true"} =>
                enc.prev = (IF epos = 0 THEN 0 ELSE pixels[epos])
          /\ elast.op = "RUN" => (enc.prev = elast.prev /\ elast.pixel = elast.prev)
          /\ eret2 = "Ok" =>
                enc2.prev = (IF pixels = <<>> THEN 0 ELSE pixels[Len(pixels)])
          /\ ~dout.oob =>
                dec.prev = LastPixelLE(dout.output, current_output_position(dout))
          /\ vdec.prev = LastPixelLE(vout, Len(vout))
          /\ ~uout.oob =>
                udec.prev = LastPixelLE(uout.output, current_output_position(uout))
          /\ sbase <= Len(sbuf) => sctx.prev = LastPixelLE(sbuf, sbase)
          /\ bbase <= Len(bbuf) => bctx.prev = LastPixelBE(bbuf, bbase))
    /\ [][/\ (pc = "decode" /\ dret = "running" /\ AtRun(din)) =>
                (dec'.prev = dec.prev
                 /\ current_output_position(dout') > current_output_position(dout))
          /\ (pc = "decode_to_vec" /\ vret = "running" /\ AtRun(vin)) =>
                (vdec'.prev = vdec.prev /\ Len(vout') > Len(vout))
          /\ (pc = "decode_unchecked" /\ uret = "running" /\ AtRun(uin)) =>
                (udec'.prev = udec.prev
                 /\ current_output_position(uout') > current_output_position(uout))
         ]_vars

\* the slice decoder has emitted a literal and then a RUN of it
C30_Witness ==
    /\ dret = "running" /\ din >= 2
    /\ Body[din] \in 192..253
    /\ dec.prev = 33808
    /\ current_output_position(dout) >= 2
    /\ dout.output[current_output_position(dout)] = <<16, 132>>
    /\ enc.prev = pixels[Len(pixels)]

\* one opcode of a block decoder that stands behind idx bytes with PREV and
\* CA, and leaves PREV2 and CA2, keeps the frame of its kind
FrameKept(PREV, CA, idx, PREV2, CA2) ==
    idx < Len(Body) =>
        LET e == Dispatch(PREV, CA, Body, idx + 1) IN
        idx + e.len <= Len(Body) =>
            /\ e.kind \in {"INDEX", "DIFF", "RUN"} => CA2 = CA
            /\ e.kind = "RUN" => PREV2 = PREV
            /\ e.kind \in {"LUMA", "DIFF_INDEXED", "RGB565"} =>
                  /\ CA2 = [CA EXCEPT ![SlotOf(e.pixel)] = e.pixel]
                  /\ PREV2 = e.pixel

\* C31: decoder frame conditions. In every decoder INDEX, DIFF and RUN leave
\* all 64 slots of CA as they are, and RUN leaves PREV as it is; LUMA,
\* DIFF_INDEXED and RGB565 assign one slot of CA, the slot hash(result), the
\* emitted pixel, and leave the other 63; the pixel of a DIFF_INDEXED is
\* computed from CA[i] as it is before that assignment. Each opcode of the
\* three block decoders and each single-byte call of the streaming decoder
\* keeps this frame, and the decoders that run a stream in one piece end with
\* the CA that these rules give.
C31_DecoderFrame ==
    /\ [](/\ (bfed > 0 /\ bfed = Len(Body) /\ EndAt(Body, 1) > 0) =>
                bctx.arr = RefFresh(Body).arr
          /\ qret = "Ok" =>
                (qctx.arr = RefFresh(Body).arr /\ qctx.prev = RefFresh(Body).prev))
    /\ [][/\ (pc = "decode" /\ dret = "running") =>
                FrameKept(dec.prev, dec.arr, din, dec'.prev, dec'.arr)
          /\ (pc = "decode_to_vec" /\ vret = "running") =>
                FrameKept(vdec.prev, vdec.arr, vin, vdec'.prev, vdec'.arr)
          /\ (pc = "decode_unchecked" /\ uret = "running") =>
                FrameKept(udec.prev, udec.arr, uin, udec'.prev, udec'.arr)
          /\ (pc = "streaming" /\ sfed' = sfed + 1) =>
                LET b == Body[sfed + 1]
                    from == sctx.state
                    p == from.byte + 256 * b
                    e == Dispatch(sctx.prev, sctx.arr, <<from.byte, b>>, 1)
                IN /\ (from.tag = "Default" /\ b \in 0..127) => sctx'.arr = sctx.arr
                   /\ (from.tag = "Default" /\ b \in 192..253) =>
                         (sctx'.arr = sctx.arr /\ sctx'.prev = sctx.prev)
                   /\ from.tag = "RawRgb565Byte2" =>
                         sctx'.arr = [sctx.arr EXCEPT ![SlotOf(p)] = p]
                   /\ from.tag = "LumaOrDiffIndexedByte2" =>
                         /\ sctx'.arr = [sctx.arr EXCEPT ![SlotOf(e.pixel)] = e.pixel]
                         /\ sctx'.prev = e.pixel
         ]_vars

\* the slice decoder has read a DIFF_INDEXED that refers to slot 20, holding
\* 0x8410, and has stored the result 0x8450 in that same slot
C31_Witness ==
    /\ Body = Literal \o <<186, 148, 255>>
    /\ dret = "running" /\ din = 5
    /\ dec.prev = 33872
    /\ dec.arr = [i \in 0..63 |-> IF i = 20 THEN 33872 ELSE 0]
    /\ dout.output[2] = <<80, 132>>

\* the slots of CA whose pixel is within the DIFF_INDEXED range of P
FittingSlots(CA, P) == {i \in 0..63 : FitsDiffIndexed(P, CA[i])}

\* C32: DIFF_INDEXED slot choice. When the encoder reaches the DIFF_INDEXED
\* step for pixel P (RUN, INDEX, DIFF and LUMA do not apply), it refers to the
\* lowest index i in 0..63 such that the wrapped differences of P against
\* CA[i], CA being the array before P is inserted, have dr, db in -2..1 and
\* dg in -4..3, and the two bytes carry these differences and i; it emits
\* RGB565 only if there is no such slot.
C32_DiffIndexedSlot ==
    elast.op \in {"DIFF_INDEXED", "RGB565"} =>
        LET P == elast.pixel
            S == FittingSlots(elast.arr, P)
        IN /\ elast.op = "RGB565" <=> S = {}
           /\ elast.op = "DIFF_INDEXED" =>
                 LET i == elast.bytes[2] % 64
                     d == ChannelDiffs(P, elast.arr[i])
                 IN /\ Len(elast.bytes) = 2
                    /\ i \in S
                    /\ \A j \in S : i <= j
                    /\ elast.bytes[1] = 160 + (d[2] + 4) * 4 + (d[1] + 2)
                    /\ elast.bytes[2] = (d[3] + 2) * 64 + i

\* after 0x843C has taken slot 0, the pixel 0x0021 fits the 63 slots that
\* still hold black, and the encoder refers to slot 1
C32_Witness ==
    /\ pixels = <<33852, 33>>
    /\ elast.op = "DIFF_INDEXED" /\ elast.pixel = 33
    /\ elast.arr[0] = 33852
    /\ FittingSlots(elast.arr, 33) = 1..63
    /\ elast.bytes[2] % 64 = 1

\* C33: context lock-step. An encoder context and a decoder context that
\* start a frame with equal (PREV, CA) have equal (PREV, CA) again after the
\* frame is encoded and the produced bytes are decoded; hence every frame of
\* a sequence encoded with encode_to_vec_with_state and decoded with
\* decode_with_state, on contexts carried over from frame to frame, round
\* trips.
C33_ContextLockStep ==
    fno >= 1 =>
        /\ (pc = "encode_to_vec" /\ eret = "none") =>
              (dec.prev = enc.prev /\ dec.arr = enc.arr)
        /\ Returned(eret) => eret = "true"
        /\ Returned(dret) =>
              /\ dret = "Ok"
              /\ dec.prev = enc.prev /\ dec.arr = enc.arr
              /\ dhdr = <<width, height>>
              /\ current_output_position(dout) = Len(pixels)
              /\ PixelsLE(dout.output) = pixels

\* the second frame starts with the pixel that ended the first and goes on
\* with a pixel the first has stored: RUN, INDEX 20 and END, decoded from the
\* carried context
C33_Witness ==
    /\ fno = 2 /\ dret = "Ok"
    /\ pixels = <<31743, 33808>>
    /\ Body = <<192, 20, 255>>
    /\ PixelsLE(dout.output) = pixels
    /\ dec.arr[58] = 31743 /\ dec.arr[20] = 33808 /\ dec.prev = 33808

\* every slot of a colour array holds 0 or a pixel of that slot
SlotsHoldTheirPixels(CA) == \A i \in 0..63 : CA[i] = 0 \/ SlotOf(CA[i]) = i

\* C34: colour-array slot invariant. Starting from a fresh context, after any
\* sequence of encoded pixels (encoder) and after any sequence of input bytes
\* (block decoders, streaming decoder), every slot i of CA holds either 0 or
\* a pixel p with hash(p) = i.
C34_SlotInvariant ==
    /\ SlotsHoldTheirPixels(enc.arr)
    /\ SlotsHoldTheirPixels(dec.arr)
    /\ SlotsHoldTheirPixels(vdec.arr)
    /\ SlotsHoldTheirPixels(udec.arr)
    /\ SlotsHoldTheirPixels(sctx.arr)
    /\ SlotsHoldTheirPixels(bctx.arr)
    /\ SlotsHoldTheirPixels(alast.ctx.arr)
    /\ SlotsHoldTheirPixels(qctx.arr)

\* the decoders have read a literal and a LUMA from bytes that no encoder
\* produced: two slots of CA are taken
C34_Witness ==
    /\ fno = 0 /\ dret = "Ok" /\ sfed = Len(Body)
    /\ Len(Body) >= 6
    /\ SubSeq(Body, 1, 5) = Literal \o <<147, 147>>
    /\ Cardinality({i \in 0..63 : dec.arr[i] # 0}) = 2
    /\ sctx.arr = dec.arr /\ vdec.arr = dec.arr
    /\ dec.arr[20] = 33808

\* the encoder has stored two pixels of different slots, over two frames
C34_EncoderCase ==
    /\ fno = 2 /\ eret = "true"
    /\ Cardinality({i \in 0..63 : enc.arr[i] # 0}) = 2

\* an image of one pixel that is not black, encoded
SinglePixelEncoded ==
    /\ width = 1 /\ height = 1 /\ Len(pixels) = 1 /\ pixels[1] # 0
    /\ eret = "true"

\* C35 as claimed: the body of the stream of a single pixel P # 0, encoded
\* from a fresh context, is one opcode, an RGB565 or a DIFF, and END.
C35_Claimed ==
    SinglePixelEncoded =>
        \/ Len(Body) = 4 /\ Body[1] = 254 /\ Body[4] = 255
        \/ Len(Body) = 2 /\ Body[1] \in 64..127 /\ Body[2] = 255

(***************************************************************************)
(* alloc_api.rs: encode_to_vec, the encoder that keeps a Q565Context and   *)
(* unpacks PREV and the entries of CA each time it compares with them.     *)
(***************************************************************************)
\* the loop of alloc_api::encode_to_vec from the pixel at pos on
RECURSIVE alloc_api_encode_loop(_, _, _, _)
alloc_api_encode_loop(state, px, pos, out) ==
    IF pos >= Len(px) THEN Append(out, 255)
    ELSE
    LET pixel == px[pos + 1] IN
    IF pixel = state.prev THEN
        LET repeats == take_while_count(px, pos + 2, state.prev)
            count == repeats + 1
            max_count_count == count \div 62
            rest_count == count % 62
        IN alloc_api_encode_loop(state, px, pos + 1 + repeats,
               out \o [i \in 1..max_count_count |-> BitOr(192, 62 - 1)]
                   \o (IF rest_count > 0
                       THEN <<BitOr(192, AsU8(rest_count - 1))>> ELSE <<>>))
    ELSE
    LET index == hash(pixel)
        state1 == [state EXCEPT !.prev = pixel]
        state2 == [state EXCEPT !.arr[index] = pixel, !.prev = pixel]
    IN
    IF state.arr[index] = pixel THEN
        alloc_api_encode_loop(state1, px, pos + 1, Append(out, index))
    ELSE
    LET c == decode_565(pixel)
        d == diff3(c, decode_565(state.prev))
        rg_diff == d[1] - d[2]
        bg_diff == d[3] - d[2]
    IN
    IF d[1] \in -2..1 /\ d[2] \in -2..1 /\ d[3] \in -2..1 THEN
        alloc_api_encode_loop(state1, px, pos + 1,
            Append(out, AsU8(BitOr(BitOr(BitOr(64, Shl8(d[1] + 2, 4)),
                                         Shl8(d[2] + 2, 2)), d[3] + 2))))
    ELSE IF rg_diff \in -8..7 /\ d[2] \in -16..15 /\ bg_diff \in -8..7 THEN
        alloc_api_encode_loop(state2, px, pos + 1,
            out \o <<BitOr(128, AsU8(d[2] + 16)),
                     BitOr(Shl8(AsU8(rg_diff + 8), 4), AsU8(bg_diff + 8))>>)
    ELSE
    LET fits == {i \in 0..63 :
                    LET da == diff3(c, decode_565(state.arr[i]))
                    IN da[1] \in -2..1 /\ da[2] \in -4..3 /\ da[3] \in -2..1}
    IN
    IF fits # {} THEN
        LET i == SetMin(fits)
            da == diff3(c, decode_565(state.arr[i]))
        IN alloc_api_encode_loop(state2, px, pos + 1,
               out \o <<BitOr(BitOr(160, Shl8(AsU8(da[2] + 4), 2)), AsU8(da[1] + 2)),
                        BitOr(Shl8(AsU8(da[3] + 2), 6), AsU8(i))>>)
    ELSE
        alloc_api_encode_loop(state2, px, pos + 1,
            out \o <<254>> \o to_le_bytes(pixel))

\* alloc_api::encode_to_vec: the dimension check, the header, the loop from a
\* new Q565Context, the end marker
alloc_api_encode_to_vec(wd, ht, px) ==
    IF wd * ht # Len(px) THEN [ret |-> "false", w |-> <<>>]
    ELSE [ret |-> "true",
          w |-> alloc_api_encode_loop(Q565Context_new, px, 0,
                    <<113, 53, 54, 53>> \o to_le_bytes(wd) \o to_le_bytes(ht))]

\* one call of alloc_api::encode_to_vec on the image, into a Vec of its own,
\* before encode_to_vec is called on the same image
AllocApiEncodeToVec ==
    /\ pc = "alloc_api_encode_to_vec"
    /\ aenc' = alloc_api_encode_to_vec(width, height, pixels)
    /\ pc' = "encode_to_vec"
    /\ UNCHANGED <<ivars, evars, e2vars, dvars, uvars, svars, bvars, hres, vvars, qvars, alast, fno, nres>>

\* an image on its own handed to both encoders, or a sequence of frames
InitCaches ==
    \/ /\ pc = "alloc_api_encode_to_vec"
       /\ fno = 0
       /\ pixels \in Images
       /\ \E d \in Dims(pixels) : width = d[1] /\ height = d[2]
       /\ Fresh(Len(pixels))
       /\ w = <<>>
    \/ InitFrames

NextCaches ==
    \/ AllocApiEncodeToVec
    \/ EncodeToVecStart
    \/ EncodeToVecPixel
    \/ EncodeToVecEnd
    \/ DecodeStart
    \/ DecodeOp
    \/ NextFrame

SpecCaches == InitCaches /\ [][NextCaches]_vars

(***************************************************************************)
(* utils.rs: diff_n, sum_n and apply_diff called on their own.             *)
(***************************************************************************)
\* the channel values of an N-bit field
Field(N) == 0..(2 ^ N - 1)

\* the differences a LUMA opcode can hold for red and blue: g_diff in -16..15
\* plus rg_diff or bg_diff in -8..7
LumaDiffs == -24..22

\* pixels whose fields are at their ends and in between
ArithPixels == {0, 65535, 33808, 31743, 2016, 63519, 1}

\* differences at the ends of the DIFF, DIFF_INDEXED and LUMA ranges
ArithDiffs == {-24, -16, -4, -2, 0, 1, 3, 15, 22}

\* diff_n::<N>(a, b) for two values of an N-bit field
DiffNCall ==
    /\ pc = "arith"
    /\ \E N \in {5, 6} : \E a \in Field(N), b \in Field(N) :
          nres' = [NoArith EXCEPT !.op = "diff_n", !.N = N, !.a = a, !.b = b,
                                  !.d = diff_n(N, a, b)]
    /\ pc' = "sum_n_back"
    /\ UNCHANGED <<ivars, evars, e2vars, dvars, uvars, svars, bvars, hres, vvars, qvars, alast, fno, aenc>>

\* sum_n::<N>(b, d) with the difference that diff_n returned
SumNBack ==
    /\ pc = "sum_n_back"
    /\ nres' = [nres EXCEPT !.op = "sum_n_back", !.s = sum_n(nres.N, nres.b, nres.d)]
    /\ pc' = "done"
    /\ UNCHANGED <<ivars, evars, e2vars, dvars, uvars, svars, bvars, hres, vvars, qvars, alast, fno, aenc>>

\* sum_n::<N>(a, d) for a value of an N-bit field and a difference
SumNCall ==
    /\ pc = "arith"
    /\ \E N \in {5, 6} : \E a \in Field(N), d \in LumaDiffs :
          nres' = [NoArith EXCEPT !.op = "sum_n", !.N = N, !.a = a, !.d = d,
                                  !.s = sum_n(N, a, d)]
    /\ pc' = "done"
    /\ UNCHANGED <<ivars, evars, e2vars, dvars, uvars, svars, bvars, hres, vvars, qvars, alast, fno, aenc>>

\* apply_diff(prev, r_diff, g_diff, b_diff)
ApplyDiffCall ==
    /\ pc = "arith"
    /\ \E prev \in ArithPixels : \E r_diff \in ArithDiffs, g_diff \in ArithDiffs,
                                      b_diff \in ArithDiffs :
          nres' = [NoArith EXCEPT !.op = "apply_diff", !.prev = prev,
                                  !.diffs = <<r_diff, g_diff, b_diff>>,
                                  !.pixel = apply_diff(prev, r_diff, g_diff, b_diff)]
    /\ pc' = "done"
    /\ UNCHANGED <<ivars, evars, e2vars, dvars, uvars, svars, bvars, hres, vvars, qvars, alast, fno, aenc>>

InitArith ==
    /\ pc = "arith"
    /\ fno = 0
    /\ pixels = <<>> /\ width = 0 /\ height = 0
    /\ Fresh(0)
    /\ w = <<>>

NextArith ==
    \/ DiffNCall
    \/ SumNBack
    \/ SumNCall
    \/ ApplyDiffCall

SpecArith == InitArith /\ [][NextArith]_vars

\* C35: single-pixel image. For width = 1, height = 1 and a pixel P # 0
\* encoded from a fresh context (PREV = 0, so PREV # P), the body of the
\* encoded stream is exactly one opcode, and that opcode is either RGB565
\* (RAW), LUMA or DIFF, followed by END.
C35_SinglePixel ==
    SinglePixelEncoded =>
        LET P == pixels[1] IN
        \/ /\ Len(Body) = 4 /\ Body[1] = 254 /\ Body[4] = 255
           /\ Body[2] + 256 * Body[3] = P
           /\ ~FitsDiff(P, 0) /\ ~FitsLuma(P, 0)
        \/ /\ Len(Body) = 3 /\ Body[1] \in 128..159 /\ Body[3] = 255
           /\ ~FitsDiff(P, 0) /\ FitsLuma(P, 0)
        \/ /\ Len(Body) = 2 /\ Body[1] \in 64..127 /\ Body[2] = 255
           /\ FitsDiff(P, 0)

\* the pixel 0x0060: green differs from black by 3, and the body is the LUMA
\* 93 55 and END
C35_Witness ==
    /\ SinglePixelEncoded
    /\ pixels = <<96>>
    /\ Body = <<147, 85, 255>>
    /\ elast.op = "END"

\* C36: termination on arbitrary input. On every finite byte sequence the
\* validating block decoders return, and every call of the streaming decoder
\* returns; the number of bytes a decoder has consumed only grows, by at
\* least one with every opcode, and never exceeds the length of the input, so
\* no byte is consumed twice. The encoder returns after it has consumed each
\* pixel exactly once, in order.
C36_Termination ==
    /\ [](/\ din <= Len(Body) /\ vin <= Len(Body)
          /\ sfed <= Len(Body) /\ bfed <= Len(Body)
          /\ slast.consumed <= slast.len
          /\ alast.consumed <= alast.len
          /\ epos <= Len(pixels)
          /\ elast.op \in PixelOps => (elast.pos < epos /\ epos - elast.pos = elast.count)
          /\ eret = "true" => epos = Len(pixels))
    /\ [][/\ (pc = "decode" /\ dret = "running" /\ din < Len(Body)) => din' > din
          /\ (pc = "decode_to_vec" /\ vret = "running" /\ vin < Len(Body)) => vin' > vin
          /\ (pc = "streaming" /\ sfed < Len(Body)) =>
                (sfed' > sfed /\ slast'.consumed >= 1)
          /\ (pc = "encode_to_vec" /\ eret = "running" /\ epos < Len(pixels)) =>
                (epos' > epos /\ elast'.pos = epos)
         ]_vars
    /\ (pc = "decode") ~> Returned(dret)
    /\ (pc = "decode_to_vec") ~> Returned(vret)
    /\ (pc = "encode_to_vec") ~> Returned(eret)

\* the slice decoder has returned after a RUN of 62, a byte that starts a
\* LUMA and the end of the input: UnexpectedEof, all four bytes behind the
\* literal consumed
C36_Witness ==
    /\ fno = 0
    /\ Body = Literal \o <<253, 147>>
    /\ dret = "UnexpectedEof" /\ din = Len(Body)
    /\ vret = "UnexpectedEof"
    /\ current_output_position(dout) = 63

\* the results with which header validation refuses an input
HeaderFailure(ret, data) ==
    \/ ret = "UnexpectedEof" /\ Len(data) < 9
    \/ ret = "InvalidMagic"
    \/ ret = "OutputTooSmall"

\* C37: when the validating decoder fails in header validation (UnexpectedEof
\* for length < 9, InvalidMagic, or OutputTooSmall), it has written nothing to
\* the sink and has not modified the decoder context's PREV or CA. The step
\* that returns the failure leaves the context, the sink and the input
\* position as they were, and a decoder that started fresh is still fresh.
C37_HeaderFailure ==
    /\ [](/\ (fno = 0 /\ HeaderFailure(dret, w)) =>
                (Untouched(dout) /\ dec = Q565DecodeContext_new /\ din = 0)
          /\ (fno = 0 /\ HeaderFailure(vret, w)) =>
                (vout = <<>> /\ vdec = Q565DecodeContext_new /\ vin = 0)
          /\ dret = "UnexpectedEof" /\ Len(w) < 9 => vret \in {"none", "UnexpectedEof"}
          /\ Len(w) < 9 => dret \in {"none", "UnexpectedEof"}
          /\ (Len(w) >= 9 /\ SubSeq(w, 1, 4) # <<113, 53, 54, 53>>) =>
                (dret \in {"none", "InvalidMagic"} /\ vret \in {"none", "InvalidMagic"}))
    /\ [][/\ (dret = "none" /\ HeaderFailure(dret', w)) =>
                (dec' = dec /\ dout' = dout /\ din' = din)
          /\ (vret = "none" /\ HeaderFailure(vret', w)) =>
                (vdec' = vdec /\ vout' = vout /\ vin' = vin)
         ]_vars

\* a header that asks for 258 pixels and a slice of 257: the slice decoder
\* has refused with OutputTooSmall, the slice and the context are untouched;
\* decode_to_vec, which grows its Vec, has gone on to decode the stream
C37_Witness ==
    /\ fno = 0
    /\ dret = "OutputTooSmall" /\ dhdr = <<258, 1>> /\ max_len(dout) = 257
    /\ Untouched(dout) /\ dec = Q565DecodeContext_new
    /\ vret = "Ok" /\ Len(vout) = 1

\* the two other refusals: an input of eight bytes, and the magic "q566"
C37_OtherFailures ==
    \/ dret = "UnexpectedEof" /\ vret = "UnexpectedEof" /\ Len(w) = 8
    \/ dret = "InvalidMagic" /\ vret = "InvalidMagic"

\* the encoder's caches hold the components of the pixels they stand for
CachesConsistent(ctx) ==
    /\ ctx.prev_components = decode_565(ctx.prev)
    /\ \A i \in 0..63 : ctx.arr_components[i] = decode_565(ctx.arr[i])

\* C38: encoder cache consistency. Starting from Q565EncodeContext::new(),
\* after any sequence of encode calls, prev_components equals decode_565(prev)
\* and arr_components[i] equals decode_565(arr[i]) for every i in 0..63;
\* consequently the caching encoder emits the same bytes as the cache-free
\* encoder alloc_api::encode_to_vec, which unpacks PREV and CA entries on each
\* use: called on the same image, both return the same result and, when they
\* accept it, the same bytes.
C38_CacheConsistency ==
    /\ CachesConsistent(enc)
    /\ (aenc.ret # "none" /\ Returned(eret)) => (eret = aenc.ret /\ w = aenc.w)
    /\ (aenc.ret = "true" /\ eret = "running") =>
          (Len(w) <= Len(aenc.w) /\ w = SubSeq(aenc.w, 1, Len(w)))

\* both encoders have returned the same bytes for an image of three pixels
\* whose third is found in the colour array, and the caches hold a pixel
C38_Witness ==
    /\ aenc.ret = "true" /\ eret = "true" /\ w = aenc.w
    /\ Len(pixels) = 3 /\ elast.op = "END"
    /\ \E k \in 9..Len(w) - 1 : w[k] \in 1..63
    /\ enc.prev # 0 /\ enc.prev_components # <<0, 0, 0>>
    /\ \E i \in 0..63 : enc.arr[i] # 0

\* the caches after the second of two frames
C38_FramesCase ==
    /\ fno = 2 /\ eret = "true" /\ CachesConsistent(enc) /\ enc.prev # 0

\* C39: N-bit wrap arithmetic. For N in {5,6} and all a, b in 0..2^N-1,
\* diff_n<N>(a,b) lies in [-2^(N-1), 2^(N-1)-1] and is congruent to a-b modulo
\* 2^N, and sum_n<N>(b, diff_n<N>(a,b)) == a; for every d in [-24, 22]
\* sum_n<N>(a,d) == (a+d) mod 2^N, so apply_diff always returns a value whose
\* three fields stay inside their 5/6/5-bit widths: each field of the result
\* is the field of prev plus its difference, modulo the width of the field.
C39_WrapArithmetic ==
    /\ nres.op \in {"diff_n", "sum_n_back"} =>
          /\ nres.d \in -(2 ^ (nres.N - 1))..(2 ^ (nres.N - 1) - 1)
          /\ (nres.d - (nres.a - nres.b)) % (2 ^ nres.N) = 0
    /\ nres.op = "sum_n_back" => nres.s = nres.a
    /\ nres.op = "sum_n" => nres.s = (nres.a + nres.d) % (2 ^ nres.N)
    /\ nres.op = "apply_diff" =>
          LET c == <<nres.prev \div 2048, (nres.prev \div 32) % 64, nres.prev % 32>>
          IN nres.pixel = ((c[1] + nres.diffs[1]) % 32) * 2048
                          + ((c[2] + nres.diffs[2]) % 64) * 32
                          + ((c[3] + nres.diffs[3]) % 32)

\* diff_n::<5>(0, 31) is 1, not -31, and sum_n::<5>(31, 1) is 0 again
C39_Witness ==
    /\ nres.op = "sum_n_back" /\ nres.N = 5
    /\ nres.a = 0 /\ nres.b = 31 /\ nres.d = 1 /\ nres.s = 0

\* a sum that wraps below zero, and an apply_diff whose fields all wrap
C39_WrapCases ==
    \/ nres.op = "sum_n" /\ nres.N = 6 /\ nres.a = 3 /\ nres.d = -24 /\ nres.s = 43
    \/ nres.op = "apply_diff" /\ nres.prev = 65535 /\ nres.diffs = <<22, 1, 1>>

\* a streaming context that waits for the second byte of a LUMA or of a
\* DIFF_INDEXED holds a first byte whose top two bits are 10
SavedByteIsLumaOrDiffIndexed(ctx) ==
    ctx.state.tag = "LumaOrDiffIndexedByte2" =>
        /\ Shr8(ctx.state.byte, 6) = 2
        /\ Shr8(ctx.state.byte, 5) \in {4, 5}

\* C40: in the streaming decoder, starting from a fresh context and for every
\* sequence of input bytes and chunk boundaries, the byte saved in
\* LumaOrDiffIndexedByte2 always has its top two bits equal to 10, so the two
\* unreachable_unchecked branches (opcode selector not in {00,01,10,11}; saved
\* byte >> 5 not in {0b100, 0b101}) are never reached.
C40_UnreachableBranches ==
    /\ SavedByteIsLumaOrDiffIndexed(sctx)
    /\ SavedByteIsLumaOrDiffIndexed(bctx)
    /\ SavedByteIsLumaOrDiffIndexed(alast.ctx)
    /\ slast.how \notin {"unreachable", "unreachable_op"}
    /\ alast.how \notin {"unreachable", "unreachable_op"}
    /\ slast.from.tag = "LumaOrDiffIndexedByte2" => Shr8(slast.from.byte, 6) = 2

\* a call that ended on the first byte of a DIFF_INDEXED has saved the byte
C40_Witness ==
    /\ sctx.state.tag = "LumaOrDiffIndexedByte2"
    /\ Shr8(sctx.state.byte, 5) = 5
    /\ slast.how = "input" /\ slast.consumed >= 1
    /\ sfed >= 1

\* a call that started from a saved byte and emitted the pixel of the opcode
C40_SecondByteCase ==
    /\ slast.from.tag = "LumaOrDiffIndexedByte2" /\ slast.ret = 1
    /\ sctx.state.tag = "Default"

====
